---- MODULE Spec2Model ----
(***************************************************************************)
(* bridgelet-core: the ephemeral escrow account contract and the sweep     *)
(* controller contract, as one state machine.                              *)
(*                                                                         *)
(* The account is modelled from its reserve-accounting revision            *)
(* (contracts/ephemeral_account/src/lib.rs, lines 312-573, with initialize *)
(* at lines 40-78).  The controller's execute_sweep exists in two          *)
(* revisions of the same function: contracts/sweep_controller/src/lib.rs   *)
(* holds the destination pin, the signature check and the nonce increment, *)
(* and contracts/ephemeral_account/src/lib.rs:780-845 holds the            *)
(* multi-asset transfer loop and the reserve reclamation.  The steps of    *)
(* both are modelled, each as an operator of its own, in the order in      *)
(* which the two revisions agree.                                          *)
(*                                                                         *)
(* The host (Soroban) runs every external invocation as one transaction:   *)
(* an invocation that returns an error or traps leaves no state behind.    *)
(* The variables accounts, controller and transfers hold committed state;  *)
(* tx holds the working state of an execute_sweep that is inside its       *)
(* transfer loop, where control is with the token contracts.               *)
(***************************************************************************)
EXTENDS Integers, Sequences, FiniteSets, TLC

VARIABLES
    ledger,      \* env.ledger().sequence(): the current ledger height
    accounts,    \* instance storage of each deployed ephemeral account
    controller,  \* instance storage of the sweep controller
    transfers,   \* committed token transfers, as a sequence
    tx,          \* the execute_sweep in flight, if any
    consumed,    \* history: signatures accepted by committed execute_sweeps
    last         \* the outcome of the last finished invocation

vars == <<ledger, accounts, controller, transfers, tx, consumed, last>>

----------------------------------------------------------------------------
(* Bounds of the model *)

MaxLedger == 2
MaxNonce == 2

(* Program constants *)

MAX_ASSETS == 10
BASE_RESERVE_PER_ENTRY == 5000000
ACCOUNT_BASE_RESERVE == 10000000
MIN_BALANCE_FOR_CLOSE == 1000000

(* Identities *)

None == "none"
Accounts == {"acct1", "acct2"}
Destinations == {"dest1", "dest2"}
Recovery == "recovery"
Creator == "creator"
ControllerId == "controller"
OtherControllerId == "controller2"
Assets == {"USDC", "XLM"}
ManyAssets ==
    {"A01", "A02", "A03", "A04", "A05", "A06", "A07", "A08", "A09", "A10", "A11"}
AssetOrder ==
    <<"A01", "A02", "A03", "A04", "A05", "A06", "A07", "A08", "A09", "A10",
      "A11", "USDC", "XLM">>
Amounts == {100, 200}
SignerKey == "signer_key"
OtherKey == "other_key"

(* Outcomes *)

Ok == "Ok"
Trap == "Trap"
Pending == "Pending"

----------------------------------------------------------------------------
(* Ephemeral account: storage *)

EmptyPayments == [x \in {} |-> 0]

Uninitialized ==
    [initialized |-> FALSE, creator |-> None, expiry_ledger |-> 0,
     recovery_address |-> None, payments |-> EmptyPayments,
     status |-> "Active", swept_to |-> None, base_reserve |-> 0,
     reserve_reclaimed |-> FALSE]

is_initialized(acct) == acct.initialized

\* The Payments key is written by add_payment alone, which stores a map
\* holding the added asset: the key is present iff the map is non-empty.
has_payments(acct) == DOMAIN acct.payments # {}

get_all_payments(acct) == acct.payments

get_total_payments(acct) == Cardinality(DOMAIN acct.payments)

get_base_reserve(acct) == acct.base_reserve

is_reserve_reclaimed(acct) == acct.reserve_reclaimed

\* Faulty variant: a reserve that does not count the trustlines.
calculate_base_reserve_flat(num_trustlines) == ACCOUNT_BASE_RESERVE

calculate_base_reserve(num_trustlines) ==
    ACCOUNT_BASE_RESERVE + (BASE_RESERVE_PER_ENTRY * num_trustlines)

\* Map::keys(): a Soroban map enumerates its keys in sorted order.
Keys(payments) == SelectSeq(AssetOrder, LAMBDA k : k \in DOMAIN payments)

\* The Vec<AssetAmount> built from a payments map by the emit functions.
AssetAmounts(payments) ==
    [i \in 1..Len(Keys(payments)) |->
        [asset |-> Keys(payments)[i], amount |-> payments[Keys(payments)[i]]]]

\* get_payment: the Option holding the record of an asset, as the set of
\* the amount recorded for it, empty when there is none.
get_payment(acct, asset) ==
    {get_all_payments(acct)[k] : k \in DOMAIN get_all_payments(acct) \cap {asset}}

set_all_payments(acct, payments) == [acct EXCEPT !.payments = payments]

\* The payments map written by the storage layer: the entry of the asset is
\* set, an existing one is overwritten.
store_payment(acct, asset, amount) ==
    set_all_payments(acct,
        [k \in DOMAIN get_all_payments(acct) \cup {asset} |->
            IF k = asset THEN amount ELSE get_all_payments(acct)[k]])

\* storage::add_payment(env, asset, amount) of the reserve revision: rejects
\* an asset already present and a map already holding MAX_ASSETS entries.
add_payment(acct, asset, amount) ==
    IF get_payment(acct, asset) # {}
    THEN [err |-> "DuplicateAsset", acct |-> acct]
    ELSE IF get_total_payments(acct) >= MAX_ASSETS
    THEN [err |-> "TooManyPayments", acct |-> acct]
    ELSE [err |-> Ok, acct |-> store_payment(acct, asset, amount)]

----------------------------------------------------------------------------
(* Ephemeral account: operations.  Each returns the error kind (Ok on      *)
(* success), the account storage after the call and the events emitted.    *)

Result(err, acct, ret, events) ==
    [err |-> err, acct |-> acct, ret |-> ret, events |-> events]

\* Faulty variant: an account that expires one ledger late.
is_expired_late(acct, height) ==
    IF ~is_initialized(acct) THEN FALSE
    ELSE height > acct.expiry_ledger

is_expired(acct, height) ==
    IF ~is_initialized(acct) THEN FALSE
    ELSE height >= acct.expiry_ledger

get_status(acct) ==
    IF ~is_initialized(acct) THEN "Active" ELSE acct.status

\* Faulty variant: an initialize without the check that it ran before.
account_initialize_again(acct, creator, expiry_ledger, recovery_address, expected_assets, authed, height) ==
    IF ~authed THEN Result(Trap, acct, 0, <<>>)
    ELSE IF expiry_ledger <= height THEN Result("InvalidExpiry", acct, 0, <<>>)
    ELSE Result(Ok,
                [acct EXCEPT !.initialized = TRUE,
                             !.creator = creator,
                             !.expiry_ledger = expiry_ledger,
                             !.recovery_address = recovery_address,
                             !.status = "Active",
                             !.base_reserve = calculate_base_reserve(expected_assets),
                             !.reserve_reclaimed = FALSE],
                0, <<>>)

\* Faulty variant: an initialize that accepts the current ledger as expiry.
account_initialize_lenient(acct, creator, expiry_ledger, recovery_address, expected_assets, authed, height) ==
    IF is_initialized(acct) THEN Result("AlreadyInitialized", acct, 0, <<>>)
    ELSE IF ~authed THEN Result(Trap, acct, 0, <<>>)
    ELSE IF expiry_ledger < height THEN Result("InvalidExpiry", acct, 0, <<>>)
    ELSE Result(Ok,
                [acct EXCEPT !.initialized = TRUE,
                             !.creator = creator,
                             !.expiry_ledger = expiry_ledger,
                             !.recovery_address = recovery_address,
                             !.status = "Active",
                             !.base_reserve = calculate_base_reserve(expected_assets),
                             !.reserve_reclaimed = FALSE],
                0, <<>>)

account_initialize(acct, creator, expiry_ledger, recovery_address, expected_assets, authed, height) ==
    IF is_initialized(acct) THEN Result("AlreadyInitialized", acct, 0, <<>>)
    ELSE IF ~authed THEN Result(Trap, acct, 0, <<>>)
    ELSE IF expiry_ledger <= height THEN Result("InvalidExpiry", acct, 0, <<>>)
    ELSE Result(Ok,
                [acct EXCEPT !.initialized = TRUE,
                             !.creator = creator,
                             !.expiry_ledger = expiry_ledger,
                             !.recovery_address = recovery_address,
                             !.status = "Active",
                             !.base_reserve = calculate_base_reserve(expected_assets),
                             !.reserve_reclaimed = FALSE],
                0,
                <<[type |-> "created", creator |-> creator,
                   expiry_ledger |-> expiry_ledger]>>)

\* Faulty variant: a payment record that is closed at the expiry.
record_payment_until_expiry(acct, amount, asset) ==
    IF ~is_initialized(acct) THEN Result("NotInitialized", acct, 0, <<>>)
    ELSE IF amount <= 0 THEN Result("InvalidAmount", acct, 0, <<>>)
    ELSE IF acct.status = "Swept" \/ acct.status = "Expired"
    THEN Result("InvalidStatus", acct, 0, <<>>)
    ELSE IF is_expired(acct, ledger) THEN Result("AccountExpired", acct, 0, <<>>)
    ELSE LET added == add_payment(acct, asset, amount) IN
         IF added.err # Ok THEN Result(added.err, acct, 0, <<>>)
         ELSE LET after ==
                    IF get_total_payments(added.acct) = 1
                    THEN [added.acct EXCEPT !.status = "PaymentReceived"]
                    ELSE added.acct
              IN Result(Ok, after, 0, <<>>)

\* Faulty variant: a payment record that leaves the status alone.
record_payment_unmarked(acct, amount, asset) ==
    IF ~is_initialized(acct) THEN Result("NotInitialized", acct, 0, <<>>)
    ELSE IF amount <= 0 THEN Result("InvalidAmount", acct, 0, <<>>)
    ELSE IF acct.status = "Swept" \/ acct.status = "Expired"
    THEN Result("InvalidStatus", acct, 0, <<>>)
    ELSE LET added == add_payment(acct, asset, amount) IN
         IF added.err # Ok THEN Result(added.err, acct, 0, <<>>)
         ELSE Result(Ok, added.acct, 0, <<>>)

\* Faulty variant: a payment record that a sweep closes and an expiry does not.
record_payment_after_expiry(acct, amount, asset) ==
    IF ~is_initialized(acct) THEN Result("NotInitialized", acct, 0, <<>>)
    ELSE IF amount <= 0 THEN Result("InvalidAmount", acct, 0, <<>>)
    ELSE IF acct.status = "Swept" THEN Result("InvalidStatus", acct, 0, <<>>)
    ELSE LET added == add_payment(acct, asset, amount) IN
         IF added.err # Ok THEN Result(added.err, acct, 0, <<>>)
         ELSE Result(Ok, added.acct, 0, <<>>)

\* Faulty variant: record_payment without the check of the status, as in the
\* revision before reserve accounting.
record_payment_any_status(acct, amount, asset) ==
    IF ~is_initialized(acct) THEN Result("NotInitialized", acct, 0, <<>>)
    ELSE IF amount <= 0 THEN Result("InvalidAmount", acct, 0, <<>>)
    ELSE LET added == add_payment(acct, asset, amount) IN
         IF added.err # Ok THEN Result(added.err, acct, 0, <<>>)
         ELSE LET after ==
                    IF get_total_payments(added.acct) = 1
                    THEN [added.acct EXCEPT !.status = "PaymentReceived"]
                    ELSE added.acct
              IN Result(Ok, after, 0, <<>>)

\* Faulty variant: record_payment without the limit on the number of assets.
record_payment_unlimited(acct, amount, asset) ==
    IF ~is_initialized(acct) THEN Result("NotInitialized", acct, 0, <<>>)
    ELSE IF amount <= 0 THEN Result("InvalidAmount", acct, 0, <<>>)
    ELSE IF acct.status = "Swept" \/ acct.status = "Expired"
    THEN Result("InvalidStatus", acct, 0, <<>>)
    ELSE IF get_payment(acct, asset) # {}
    THEN Result("DuplicateAsset", acct, 0, <<>>)
    ELSE LET added == store_payment(acct, asset, amount)
             after == IF get_total_payments(added) = 1
                      THEN [added EXCEPT !.status = "PaymentReceived"]
                      ELSE added
         IN Result(Ok, after, 0,
                   <<[type |-> "multi_pay", asset |-> asset, amount |-> amount,
                      total |-> get_total_payments(after)]>>)

\* Faulty variant: record_payment writing through the storage layer alone,
\* which overwrites the record of an asset.
record_payment_overwriting(acct, amount, asset) ==
    IF ~is_initialized(acct) THEN Result("NotInitialized", acct, 0, <<>>)
    ELSE IF amount <= 0 THEN Result("InvalidAmount", acct, 0, <<>>)
    ELSE IF acct.status = "Swept" \/ acct.status = "Expired"
    THEN Result("InvalidStatus", acct, 0, <<>>)
    ELSE IF get_total_payments(acct) >= MAX_ASSETS
    THEN Result("TooManyPayments", acct, 0, <<>>)
    ELSE LET added == store_payment(acct, asset, amount)
             after == IF get_total_payments(added) = 1
                      THEN [added EXCEPT !.status = "PaymentReceived"]
                      ELSE added
         IN Result(Ok, after, 0,
                   <<[type |-> "multi_pay", asset |-> asset, amount |-> amount,
                      total |-> get_total_payments(after)]>>)

record_payment(acct, amount, asset) ==
    IF ~is_initialized(acct) THEN Result("NotInitialized", acct, 0, <<>>)
    ELSE IF amount <= 0 THEN Result("InvalidAmount", acct, 0, <<>>)
    ELSE IF acct.status = "Swept" \/ acct.status = "Expired"
    THEN Result("InvalidStatus", acct, 0, <<>>)
    ELSE LET added == add_payment(acct, asset, amount) IN
         IF added.err # Ok THEN Result(added.err, acct, 0, <<>>)
         ELSE LET after ==
                    IF get_total_payments(added.acct) = 1
                    THEN [added.acct EXCEPT !.status = "PaymentReceived"]
                    ELSE added.acct
              IN Result(Ok, after, 0,
                        <<[type |-> "multi_pay", asset |-> asset,
                           amount |-> amount,
                           total |-> get_total_payments(after)]>>)

\* verify_sweep_authorization: a stub that accepts every signature.
verify_sweep_authorization(destination, signature) == Ok

\* Faulty variant: a sweep that empties the payment ledger as it marks the
\* account.
sweep_clearing(acct, destination, signature, height) ==
    IF ~is_initialized(acct) THEN Result("NotInitialized", acct, 0, <<>>)
    ELSE IF acct.status = "Swept" THEN Result("AlreadySwept", acct, 0, <<>>)
    ELSE IF ~has_payments(acct) THEN Result("NoPaymentReceived", acct, 0, <<>>)
    ELSE IF is_expired(acct, height) THEN Result("AccountExpired", acct, 0, <<>>)
    ELSE Result(Ok,
                [acct EXCEPT !.status = "Swept", !.swept_to = destination,
                             !.payments = EmptyPayments],
                0, <<>>)

\* Faulty variant: a sweep that leaves the status for after the transfers.
sweep_unmarked(acct, destination, signature, height) ==
    IF ~is_initialized(acct) THEN Result("NotInitialized", acct, 0, <<>>)
    ELSE IF acct.status = "Swept" THEN Result("AlreadySwept", acct, 0, <<>>)
    ELSE IF ~has_payments(acct) THEN Result("NoPaymentReceived", acct, 0, <<>>)
    ELSE IF is_expired(acct, height) THEN Result("AccountExpired", acct, 0, <<>>)
    ELSE Result(Ok, [acct EXCEPT !.swept_to = destination], 0, <<>>)

\* Faulty variant: a sweep without the check that the account is not yet swept.
sweep_again(acct, destination, signature, height) ==
    IF ~is_initialized(acct) THEN Result("NotInitialized", acct, 0, <<>>)
    ELSE IF ~has_payments(acct) THEN Result("NoPaymentReceived", acct, 0, <<>>)
    ELSE IF is_expired(acct, height) THEN Result("AccountExpired", acct, 0, <<>>)
    ELSE Result(Ok,
                [acct EXCEPT !.status = "Swept", !.swept_to = destination],
                0, <<>>)

\* Faulty variant: a sweep that checks the expiry before the status.
sweep_expiry_first(acct, destination, signature, height) ==
    IF ~is_initialized(acct) THEN Result("NotInitialized", acct, 0, <<>>)
    ELSE IF is_expired(acct, height) THEN Result("AccountExpired", acct, 0, <<>>)
    ELSE IF acct.status = "Swept" THEN Result("AlreadySwept", acct, 0, <<>>)
    ELSE IF ~has_payments(acct) THEN Result("NoPaymentReceived", acct, 0, <<>>)
    ELSE Result(Ok,
                [acct EXCEPT !.status = "Swept", !.swept_to = destination],
                0,
                <<[type |-> "swept", destination |-> destination,
                   assets |-> AssetAmounts(get_all_payments(acct)),
                   reserve_reclaimed |-> acct.base_reserve]>>)

\* Faulty variant: a sweep without the check of the expiry ledger.
sweep_no_deadline(acct, destination, signature, height) ==
    IF ~is_initialized(acct) THEN Result("NotInitialized", acct, 0, <<>>)
    ELSE IF acct.status = "Swept" THEN Result("AlreadySwept", acct, 0, <<>>)
    ELSE IF ~has_payments(acct) THEN Result("NoPaymentReceived", acct, 0, <<>>)
    ELSE Result(Ok,
                [acct EXCEPT !.status = "Swept", !.swept_to = destination],
                0,
                <<[type |-> "swept", destination |-> destination,
                   assets |-> AssetAmounts(get_all_payments(acct)),
                   reserve_reclaimed |-> acct.base_reserve]>>)

\* Faulty variant: a sweep without the check that a payment was recorded.
sweep_unpaid(acct, destination, signature, height) ==
    IF ~is_initialized(acct) THEN Result("NotInitialized", acct, 0, <<>>)
    ELSE IF acct.status = "Swept" THEN Result("AlreadySwept", acct, 0, <<>>)
    ELSE IF is_expired(acct, height) THEN Result("AccountExpired", acct, 0, <<>>)
    ELSE Result(Ok,
                [acct EXCEPT !.status = "Swept", !.swept_to = destination],
                0,
                <<[type |-> "swept", destination |-> destination,
                   assets |-> AssetAmounts(get_all_payments(acct)),
                   reserve_reclaimed |-> acct.base_reserve]>>)

sweep(acct, destination, signature, height) ==
    IF ~is_initialized(acct) THEN Result("NotInitialized", acct, 0, <<>>)
    ELSE IF acct.status = "Swept" THEN Result("AlreadySwept", acct, 0, <<>>)
    ELSE IF ~has_payments(acct) THEN Result("NoPaymentReceived", acct, 0, <<>>)
    ELSE IF is_expired(acct, height) THEN Result("AccountExpired", acct, 0, <<>>)
    ELSE IF verify_sweep_authorization(destination, signature) # Ok
    THEN Result("Unauthorized", acct, 0, <<>>)
    ELSE Result(Ok,
                [acct EXCEPT !.status = "Swept", !.swept_to = destination],
                0,
                <<[type |-> "swept", destination |-> destination,
                   assets |-> AssetAmounts(get_all_payments(acct)),
                   reserve_reclaimed |-> acct.base_reserve]>>)

\* Faulty variant: a reclamation without the check of the latch.
reclaim_reserve_again(acct, recipient) ==
    IF ~is_initialized(acct) THEN Result("NotInitialized", acct, 0, <<>>)
    ELSE IF acct.status # "Swept" THEN Result("InvalidStatus", acct, 0, <<>>)
    ELSE Result(Ok, [acct EXCEPT !.reserve_reclaimed = TRUE],
                acct.base_reserve - MIN_BALANCE_FOR_CLOSE, <<>>)

\* Faulty variant: a reclamation without the check of the status.
reclaim_reserve_any_status(acct, recipient) ==
    IF ~is_initialized(acct) THEN Result("NotInitialized", acct, 0, <<>>)
    ELSE IF acct.reserve_reclaimed THEN Result("AlreadySwept", acct, 0, <<>>)
    ELSE Result(Ok, [acct EXCEPT !.reserve_reclaimed = TRUE],
                acct.base_reserve - MIN_BALANCE_FOR_CLOSE, <<>>)

reclaim_reserve(acct, recipient) ==
    IF ~is_initialized(acct) THEN Result("NotInitialized", acct, 0, <<>>)
    ELSE IF acct.status # "Swept" THEN Result("InvalidStatus", acct, 0, <<>>)
    ELSE IF acct.reserve_reclaimed THEN Result("AlreadySwept", acct, 0, <<>>)
    ELSE LET reclaimable ==
                IF acct.base_reserve > MIN_BALANCE_FOR_CLOSE
                THEN acct.base_reserve - MIN_BALANCE_FOR_CLOSE
                ELSE 0
         IN Result(Ok, [acct EXCEPT !.reserve_reclaimed = TRUE], reclaimable,
                   IF reclaimable > 0
                   THEN <<[type |-> "reserve", recipient |-> recipient,
                           amount |-> reclaimable]>>
                   ELSE <<>>)

\* Faulty variant: an expiry accepted one ledger before the deadline.
expire_early(acct, height) ==
    IF ~is_initialized(acct) THEN Result("NotInitialized", acct, 0, <<>>)
    ELSE IF acct.status = "Swept" \/ acct.status = "Expired"
    THEN Result("InvalidStatus", acct, 0, <<>>)
    ELSE IF ~is_expired(acct, height + 1) THEN Result("NotExpired", acct, 0, <<>>)
    ELSE Result(Ok,
                [acct EXCEPT !.status = "Expired",
                             !.swept_to = acct.recovery_address,
                             !.reserve_reclaimed = TRUE],
                0, <<>>)

\* Faulty variant: an expiry that asks for a payment, as a sweep does.
expire_paid_only(acct, height) ==
    IF ~is_initialized(acct) THEN Result("NotInitialized", acct, 0, <<>>)
    ELSE IF acct.status = "Swept" \/ acct.status = "Expired"
    THEN Result("InvalidStatus", acct, 0, <<>>)
    ELSE IF ~has_payments(acct) THEN Result("NoPaymentReceived", acct, 0, <<>>)
    ELSE IF ~is_expired(acct, height) THEN Result("NotExpired", acct, 0, <<>>)
    ELSE Result(Ok,
                [acct EXCEPT !.status = "Expired",
                             !.swept_to = acct.recovery_address,
                             !.reserve_reclaimed = TRUE],
                0, <<>>)

\* Faulty variant: an expiry that leaves the reserve latch alone.
expire_unlatched(acct, height) ==
    IF ~is_initialized(acct) THEN Result("NotInitialized", acct, 0, <<>>)
    ELSE IF acct.status = "Swept" \/ acct.status = "Expired"
    THEN Result("InvalidStatus", acct, 0, <<>>)
    ELSE IF ~is_expired(acct, height) THEN Result("NotExpired", acct, 0, <<>>)
    ELSE Result(Ok,
                [acct EXCEPT !.status = "Expired",
                             !.swept_to = acct.recovery_address],
                0, <<>>)

\* Faulty variant: an expiry without the check of the status.
expire_any_status(acct, height) ==
    IF ~is_initialized(acct) THEN Result("NotInitialized", acct, 0, <<>>)
    ELSE IF ~is_expired(acct, height) THEN Result("NotExpired", acct, 0, <<>>)
    ELSE Result(Ok,
                [acct EXCEPT !.status = "Expired",
                             !.swept_to = acct.recovery_address,
                             !.reserve_reclaimed = TRUE],
                0, <<>>)

expire(acct, height) ==
    IF ~is_initialized(acct) THEN Result("NotInitialized", acct, 0, <<>>)
    ELSE IF acct.status = "Swept" \/ acct.status = "Expired"
    THEN Result("InvalidStatus", acct, 0, <<>>)
    ELSE IF ~is_expired(acct, height) THEN Result("NotExpired", acct, 0, <<>>)
    ELSE LET reserve_to_return ==
                IF acct.base_reserve > MIN_BALANCE_FOR_CLOSE
                THEN acct.base_reserve - MIN_BALANCE_FOR_CLOSE
                ELSE 0
         IN Result(Ok,
                   [acct EXCEPT !.status = "Expired",
                                !.swept_to = acct.recovery_address,
                                !.reserve_reclaimed = TRUE],
                   0,
                   <<[type |-> "expired",
                      recovery_address |-> acct.recovery_address,
                      total_assets |-> get_total_payments(acct),
                      reserve_returned |-> reserve_to_return]>>)

\* Faulty variant: only the first payment, as the single-asset controller read it.
get_payments_first(acct) ==
    [k \in {Keys(get_all_payments(acct))[i] :
                i \in 1..(IF has_payments(acct) THEN 1 ELSE 0)} |->
        get_all_payments(acct)[k]]

get_payments(acct) == get_all_payments(acct)

----------------------------------------------------------------------------
(* Sweep controller: storage *)

ControllerUninitialized ==
    [authorized_signer |-> None, authorized_destination |-> None,
     sweep_nonce |-> 0, creator |-> None]

get_authorized_signer(ctrl) == ctrl.authorized_signer

get_sweep_nonce(ctrl) == ctrl.sweep_nonce

init_sweep_nonce(ctrl) == [ctrl EXCEPT !.sweep_nonce = 0]

\* Faulty variant: a nonce that is written back as it was read.
increment_sweep_nonce_stuck(ctrl) ==
    [ctrl EXCEPT !.sweep_nonce = get_sweep_nonce(ctrl)]

increment_sweep_nonce(ctrl) ==
    [ctrl EXCEPT !.sweep_nonce = get_sweep_nonce(ctrl) + 1]

has_authorized_destination(ctrl) == ctrl.authorized_destination # None

get_authorized_destination(ctrl) == ctrl.authorized_destination

set_authorized_destination(ctrl, destination) ==
    [ctrl EXCEPT !.authorized_destination = destination]

----------------------------------------------------------------------------
(* Sweep controller: authorization *)

\* Address::to_xdr: the ScVal type tag (SCV_ADDRESS = 18), the ScAddress
\* discriminant (0 account, 1 contract) and the identifier, here one byte
\* in place of the 32 of a key or contract hash.
AddressKind(addr) == IF addr \in Accounts \cup {ControllerId, OtherControllerId} THEN 1 ELSE 0

AddressIdByte(addr) ==
    CASE addr = "dest1" -> 11
      [] addr = "dest2" -> 12
      [] addr = "recovery" -> 13
      [] addr = "creator" -> 14
      [] addr = "acct1" -> 21
      [] addr = "acct2" -> 22
      [] addr = "controller" -> 31
      [] addr = "controller2" -> 32
      [] OTHER -> 0

to_xdr(addr) ==
    <<0, 0, 0, 18>> \o <<0, 0, 0, AddressKind(addr)>> \o <<AddressIdByte(addr)>>

\* nonce >> (8 * k), on a u64.
RECURSIVE ShiftRightBytes(_, _)
ShiftRightBytes(n, k) == IF k = 0 THEN n ELSE ShiftRightBytes(n \div 256, k - 1)

\* The 8-byte big-endian encoding of the nonce.
nonce_array(nonce) == [i \in 1..8 |-> ShiftRightBytes(nonce, 8 - i) % 256]

\* env.crypto().sha256, a collision-free black box.
sha256(bytes) == <<"sha256", bytes>>

\* The message of a given nonce: hash(destination + nonce + contract_id).
sweep_message(destination, nonce, contract_id) ==
    sha256(to_xdr(destination) \o nonce_array(nonce) \o to_xdr(contract_id))

construct_sweep_message(ctrl, destination, contract_id) ==
    sweep_message(destination, get_sweep_nonce(ctrl), contract_id)

\* An Ed25519 signature names the key pair that made it and the message it
\* was made over; verification accepts it for that public key and message
\* alone.
Sign(key, message) == [key |-> key, message |-> message]

ed25519_verify(public_key, message, signature) ==
    signature.key = public_key /\ signature.message = message

\* Faulty variant: a verification that has nothing to verify against while
\* no signer is set, and passes.
verify_sweep_auth_unset_passes(ctrl, account, destination, signature) ==
    IF get_authorized_signer(ctrl) = None THEN Ok
    ELSE IF ~ed25519_verify(get_authorized_signer(ctrl),
                            construct_sweep_message(ctrl, destination, ControllerId),
                            signature)
    THEN Trap
    ELSE Ok

\* Faulty variant: a verification whose message names the account in the
\* place of the controller.
verify_sweep_auth_account_bound(ctrl, account, destination, signature) ==
    IF get_authorized_signer(ctrl) = None THEN "AuthorizedSignerNotSet"
    ELSE IF ~ed25519_verify(get_authorized_signer(ctrl),
                            construct_sweep_message(ctrl, destination, account),
                            signature)
    THEN Trap
    ELSE Ok

\* Faulty variant: a verification that checks who signed, not what was signed.
verify_sweep_auth_signer_only(ctrl, account, destination, signature) ==
    IF get_authorized_signer(ctrl) = None THEN "AuthorizedSignerNotSet"
    ELSE IF signature.key # get_authorized_signer(ctrl) THEN Trap
    ELSE Ok

\* ed25519_verify traps when the signature does not verify.
verify_sweep_auth(ctrl, account, destination, signature) ==
    IF get_authorized_signer(ctrl) = None THEN "AuthorizedSignerNotSet"
    ELSE IF ~ed25519_verify(get_authorized_signer(ctrl),
                            construct_sweep_message(ctrl, destination, ControllerId),
                            signature)
    THEN Trap
    ELSE Ok

increment_nonce(ctrl) == increment_sweep_nonce(ctrl)

----------------------------------------------------------------------------
(* Sweep controller: operations *)

\* Faulty variant: an initialize that may be repeated.
controller_initialize_repeatable(ctrl, authorized_signer, authorized_destination) ==
    LET c1 == [ctrl EXCEPT !.creator = ControllerId,
                           !.authorized_signer = authorized_signer]
        c2 == init_sweep_nonce(c1)
    IN IF authorized_destination # None
       THEN [err |-> Ok,
             ctrl |-> set_authorized_destination(c2, authorized_destination),
             events |-> <<>>]
       ELSE [err |-> Ok, ctrl |-> c2, events |-> <<>>]

\* Faulty variant: an initialize that takes the presence of a pinned
\* destination for the mark of an earlier initialization.
controller_initialize_by_pin(ctrl, authorized_signer, authorized_destination) ==
    IF has_authorized_destination(ctrl)
    THEN [err |-> "AuthorizationFailed", ctrl |-> ctrl, events |-> <<>>]
    ELSE LET c1 == [ctrl EXCEPT !.creator = ControllerId,
                                !.authorized_signer = authorized_signer]
             c2 == init_sweep_nonce(c1)
         IN IF authorized_destination # None
            THEN [err |-> Ok,
                  ctrl |-> set_authorized_destination(c2, authorized_destination),
                  events |-> <<>>]
            ELSE [err |-> Ok, ctrl |-> c2, events |-> <<>>]

controller_initialize(ctrl, authorized_signer, authorized_destination) ==
    IF get_authorized_signer(ctrl) # None
    THEN [err |-> "AuthorizationFailed", ctrl |-> ctrl, events |-> <<>>]
    ELSE LET c1 == [ctrl EXCEPT !.creator = ControllerId,
                                !.authorized_signer = authorized_signer]
             c2 == init_sweep_nonce(c1)
         IN IF authorized_destination # None
            THEN [err |-> Ok,
                  ctrl |-> set_authorized_destination(c2, authorized_destination),
                  events |-> <<[type |-> "dest_auth",
                                destination |-> authorized_destination]>>]
            ELSE [err |-> Ok, ctrl |-> c2, events |-> <<>>]

\* Faulty variant: an update that removes the pin when it is given the
\* pinned destination again.
update_authorized_destination_clearing(ctrl, new_destination, authed) ==
    IF ctrl.creator = None
    THEN [err |-> "AuthorizationFailed", ctrl |-> ctrl, events |-> <<>>]
    ELSE IF ~authed THEN [err |-> Trap, ctrl |-> ctrl, events |-> <<>>]
    ELSE IF get_sweep_nonce(ctrl) > 0
    THEN [err |-> "AccountAlreadySwept", ctrl |-> ctrl, events |-> <<>>]
    ELSE [err |-> Ok,
          ctrl |-> IF get_authorized_destination(ctrl) = new_destination
                   THEN [ctrl EXCEPT !.authorized_destination = None]
                   ELSE set_authorized_destination(ctrl, new_destination),
          events |-> <<[type |-> "dest_upd",
                        old_destination |-> get_authorized_destination(ctrl),
                        new_destination |-> new_destination]>>]

\* Faulty variant: an update without the check of the nonce.
update_authorized_destination_any_time(ctrl, new_destination, authed) ==
    IF ctrl.creator = None
    THEN [err |-> "AuthorizationFailed", ctrl |-> ctrl, events |-> <<>>]
    ELSE IF ~authed THEN [err |-> Trap, ctrl |-> ctrl, events |-> <<>>]
    ELSE [err |-> Ok,
          ctrl |-> set_authorized_destination(ctrl, new_destination),
          events |-> <<>>]

update_authorized_destination(ctrl, new_destination, authed) ==
    IF ctrl.creator = None
    THEN [err |-> "AuthorizationFailed", ctrl |-> ctrl, events |-> <<>>]
    ELSE IF ~authed THEN [err |-> Trap, ctrl |-> ctrl, events |-> <<>>]
    ELSE IF get_sweep_nonce(ctrl) > 0
    THEN [err |-> "AccountAlreadySwept", ctrl |-> ctrl, events |-> <<>>]
    ELSE [err |-> Ok,
          ctrl |-> set_authorized_destination(ctrl, new_destination),
          events |-> <<[type |-> "dest_upd",
                        old_destination |-> get_authorized_destination(ctrl),
                        new_destination |-> new_destination]>>]

\* Faulty variant: a controller that does not compare with the pin.
check_destination_unlocked(ctrl, destination) == Ok

\* execute_sweep, locked mode: the destination must be the pinned one.
check_destination(ctrl, destination) ==
    IF has_authorized_destination(ctrl)
       /\ destination # get_authorized_destination(ctrl)
    THEN "UnauthorizedDestination"
    ELSE Ok

\* execute_sweep up to its transfer loop: the destination pin, the signature,
\* the nonce, Account.sweep and the read of the payment ledger.  acct_err is
\* the error the account reported, if the call reached it.
SweepEntry(err, acct_err, ctrl, acct, payments, events) ==
    [err |-> err, acct_err |-> acct_err, ctrl |-> ctrl, acct |-> acct,
     payments |-> payments, events |-> events]

execute_sweep_entry(ctrl, acct, account, destination, signature, height) ==
    IF check_destination(ctrl, destination) # Ok
    THEN SweepEntry(check_destination(ctrl, destination), None, ctrl, acct,
                    EmptyPayments, <<>>)
    ELSE IF verify_sweep_auth(ctrl, account, destination, signature) # Ok
    THEN SweepEntry(verify_sweep_auth(ctrl, account, destination, signature),
                    None, ctrl, acct, EmptyPayments, <<>>)
    ELSE LET c1 == increment_nonce(ctrl)
             swept == sweep(acct, destination, signature, height)
         IN IF swept.err # Ok
            THEN SweepEntry("InvalidAccount", swept.err, ctrl, acct,
                            EmptyPayments, <<>>)
            ELSE IF get_total_payments(swept.acct) = 0
            THEN SweepEntry("AccountNotReady", Ok, ctrl, acct,
                            EmptyPayments, <<>>)
            ELSE SweepEntry(Ok, Ok, c1, swept.acct,
                            get_payments(swept.acct), swept.events)

\* One invocation of the transfer capability, TransferContext::execute:
\* whether token.transfer returned, and the account's status and destination
\* at the moment of the invocation.
TransferCall(acct, token, from, to, amount, returned) ==
    [token |-> token, from |-> from, to |-> to, amount |-> amount,
     returned |-> returned, status_at |-> acct.status,
     swept_to_at |-> acct.swept_to]

\* The Vec<AssetAmount> of the completion record.
emit_sweep_completed(account, destination, payments, reserve_amount) ==
    [type |-> "sweep", ephemeral_account |-> account,
     destination |-> destination, assets |-> AssetAmounts(payments),
     reserve_reclaimed |-> reserve_amount]

\* Faulty variant: an execute_sweep that swallows the error of reclaim_reserve.
execute_sweep_exit_swallowing(acct, account, destination, reclaim_reserve_to, payments) ==
    LET reserve_recipient ==
            IF reclaim_reserve_to # None THEN reclaim_reserve_to ELSE destination
        reclaimed == reclaim_reserve(acct, reserve_recipient)
    IN [err |-> Ok, acct_err |-> reclaimed.err, acct |-> reclaimed.acct,
        events |-> <<emit_sweep_completed(account, destination, payments,
                                          reclaimed.ret)>>]

\* Faulty variant: an execute_sweep that ends at its transfer loop and leaves
\* the reserve in the account.
execute_sweep_exit_unreclaimed(acct, account, destination, reclaim_reserve_to, payments) ==
    [err |-> Ok, acct_err |-> Ok, acct |-> acct,
     events |-> <<emit_sweep_completed(account, destination, payments, 0)>>]

\* execute_sweep after its transfer loop: the reserve reclamation and the
\* completion record.
execute_sweep_exit(acct, account, destination, reclaim_reserve_to, payments) ==
    LET reserve_recipient ==
            IF reclaim_reserve_to # None THEN reclaim_reserve_to ELSE destination
        reclaimed == reclaim_reserve(acct, reserve_recipient)
    IN IF reclaimed.err # Ok
       THEN [err |-> "TransferFailed", acct_err |-> reclaimed.err,
             acct |-> acct, events |-> <<>>]
       ELSE [err |-> Ok, acct_err |-> Ok, acct |-> reclaimed.acct,
             events |-> reclaimed.events \o
                 <<emit_sweep_completed(account, destination, payments,
                                        reclaimed.ret)>>]

\* Faulty variant: a readiness check that does not look at the status.
can_sweep_any_status(acct, height) ==
    IF ~is_initialized(acct) THEN FALSE
    ELSE has_payments(acct) /\ ~is_expired(acct, height)

\* Faulty variant: a readiness check that does not look at the expiry.
can_sweep_any_height(acct, height) ==
    IF ~is_initialized(acct) THEN FALSE
    ELSE has_payments(acct) /\ acct.status = "PaymentReceived"

can_sweep(acct, height) ==
    IF ~is_initialized(acct) THEN FALSE
    ELSE has_payments(acct)
         /\ acct.status = "PaymentReceived"
         /\ ~is_expired(acct, height)

\* Faulty variant: a reserve query that does not look at the latch.
get_reclaimable_reserve_unlatched(acct) ==
    IF ~is_initialized(acct) THEN 0
    ELSE IF acct.base_reserve > 1000000 THEN acct.base_reserve - 1000000
    ELSE 0

get_reclaimable_reserve(acct) ==
    IF ~is_initialized(acct) THEN 0
    ELSE IF acct.reserve_reclaimed THEN 0
    ELSE IF acct.base_reserve > 1000000 THEN acct.base_reserve - 1000000
    ELSE 0

----------------------------------------------------------------------------
(* The state machine *)

\* The signatures a caller may present: the authorized signer's, over the
\* message of every destination and nonce, and two kinds of forgery, by
\* another key and for another controller.
Authorizations ==
    {Sign(SignerKey, sweep_message(d, n, ControllerId)) :
        d \in Destinations, n \in 0..MaxNonce}

Forgeries ==
    {Sign(OtherKey, sweep_message(d, 0, ControllerId)) : d \in Destinations}
    \cup {Sign(SignerKey, sweep_message(d, 0, OtherControllerId)) :
             d \in Destinations}

Signatures == Authorizations \cup Forgeries

\* The account never reads the signature it is handed: one stands for all.
AnySignature == Sign(OtherKey, sha256(<<>>))

TxIdle ==
    [active |-> FALSE, account |-> None, destination |-> None,
     reclaim_to |-> None, ctrl |-> ControllerUninitialized,
     acct |-> Uninitialized, payments |-> EmptyPayments, todo |-> <<>>,
     done |-> <<>>, events |-> <<>>, nested |-> <<>>, accepted |-> <<>>]

Outcome(op, account, err, acct_err, ret, events, done, nested) ==
    [op |-> op, account |-> account, err |-> err, acct_err |-> acct_err,
     ret |-> ret, events |-> events, done |-> done, nested |-> nested]

Init ==
    /\ ledger = 0
    /\ accounts = [a \in Accounts |-> Uninitialized]
    /\ controller = ControllerUninitialized
    /\ transfers = <<>>
    /\ tx = TxIdle
    /\ consumed = <<>>
    /\ last = Outcome("none", None, Ok, None, 0, <<>>, <<>>, <<>>)

\* A direct invocation of an account operation: committed when it returns
\* Ok, rolled back by the host otherwise.
AccountCall(op, a, r) ==
    /\ ~tx.active
    /\ accounts' = IF r.err = Ok THEN [accounts EXCEPT ![a] = r.acct] ELSE accounts
    /\ last' = Outcome(op, a, r.err, r.err, r.ret, r.events, <<>>, <<>>)
    /\ UNCHANGED <<ledger, controller, transfers, tx, consumed>>

Initialize(a, creator, expiry_ledger, recovery_address, expected_assets, authed) ==
    AccountCall("initialize", a,
                account_initialize(accounts[a], creator, expiry_ledger,
                                   recovery_address, expected_assets, authed,
                                   ledger))

RecordPayment(a, amount, asset) ==
    AccountCall("record_payment", a, record_payment(accounts[a], amount, asset))

Sweep(a, destination, signature) ==
    AccountCall("sweep", a, sweep(accounts[a], destination, signature, ledger))

ReclaimReserve(a, recipient) ==
    AccountCall("reclaim_reserve", a, reclaim_reserve(accounts[a], recipient))

Expire(a) ==
    AccountCall("expire", a, expire(accounts[a], ledger))

\* A direct invocation of a controller operation other than execute_sweep.
ControllerCall(op, r) ==
    /\ ~tx.active
    /\ controller' = IF r.err = Ok THEN r.ctrl ELSE controller
    /\ last' = Outcome(op, None, r.err, None, 0, r.events, <<>>, <<>>)
    /\ UNCHANGED <<ledger, accounts, transfers, tx, consumed>>

ControllerInitialize(authorized_signer, authorized_destination) ==
    ControllerCall("controller_initialize",
                   controller_initialize(controller, authorized_signer,
                                         authorized_destination))

UpdateAuthorizedDestination(new_destination, authed) ==
    ControllerCall("update_authorized_destination",
                   update_authorized_destination(controller, new_destination,
                                                 authed))

\* Faulty variant: an execute_sweep whose nonce increment survives the error
\* the account answered afterwards.
ExecuteSweepEnterUnrolled(a, destination, signature, overrides) ==
    /\ ~tx.active
    /\ LET e == execute_sweep_entry(controller, accounts[a], a, destination,
                                    signature, ledger)
       IN IF e.err # Ok
          THEN /\ last' = Outcome("execute_sweep", a, e.err, e.acct_err, 0,
                                  <<>>, <<>>, <<>>)
               /\ tx' = tx
               /\ controller' = IF e.acct_err # None /\ controller.sweep_nonce < MaxNonce
                                THEN increment_nonce(controller)
                                ELSE controller
          ELSE /\ controller.sweep_nonce < MaxNonce
               /\ controller' = controller
               /\ \E reclaim_reserve_to \in overrides :
                    tx' = [active |-> TRUE, account |-> a,
                           destination |-> destination,
                           reclaim_to |-> reclaim_reserve_to, ctrl |-> e.ctrl,
                           acct |-> e.acct, payments |-> e.payments,
                           todo |-> Keys(e.payments), done |-> <<>>,
                           events |-> e.events, nested |-> <<>>,
                           accepted |-> <<signature>>]
               /\ last' = Outcome("execute_sweep", a, Pending, Ok, 0, <<>>,
                                  <<>>, <<>>)
    /\ UNCHANGED <<ledger, accounts, transfers, consumed>>

\* execute_sweep from its entry to its first transfer: an error ends the
\* invocation with nothing committed.  While the invocation is in its
\* transfer loop its outcome is Pending.  The reserve override, one of
\* overrides, is read only after the loop.
ExecuteSweepEnter(a, destination, signature, overrides) ==
    /\ ~tx.active
    /\ LET e == execute_sweep_entry(controller, accounts[a], a, destination,
                                    signature, ledger)
       IN IF e.err # Ok
          THEN /\ last' = Outcome("execute_sweep", a, e.err, e.acct_err, 0,
                                  <<>>, <<>>, <<>>)
               /\ tx' = tx
          ELSE /\ controller.sweep_nonce < MaxNonce
               /\ \E reclaim_reserve_to \in overrides :
                    tx' = [active |-> TRUE, account |-> a,
                           destination |-> destination,
                           reclaim_to |-> reclaim_reserve_to, ctrl |-> e.ctrl,
                           acct |-> e.acct, payments |-> e.payments,
                           todo |-> Keys(e.payments), done |-> <<>>,
                           events |-> e.events, nested |-> <<>>,
                           accepted |-> <<signature>>]
               /\ last' = Outcome("execute_sweep", a, Pending, Ok, 0, <<>>,
                                  <<>>, <<>>)
    /\ UNCHANGED <<ledger, accounts, controller, transfers, consumed>>

\* The transfer of the next asset of the loop: token.transfer returns.
TransferReturns ==
    /\ tx.active
    /\ tx.todo # <<>>
    /\ tx' = [tx EXCEPT
                !.done = Append(@, TransferCall(tx.acct, Head(tx.todo),
                                                tx.account, tx.destination,
                                                tx.payments[Head(tx.todo)],
                                                TRUE)),
                !.todo = Tail(@)]
    /\ UNCHANGED <<ledger, accounts, controller, transfers, consumed, last>>

\* Faulty variant: a failed transfer is swallowed and the loop goes on.
TransferTrapsSwallowed ==
    /\ tx.active
    /\ tx.todo # <<>>
    /\ tx' = [tx EXCEPT
                !.done = Append(@, TransferCall(tx.acct, Head(tx.todo),
                                                tx.account, tx.destination,
                                                tx.payments[Head(tx.todo)],
                                                FALSE)),
                !.todo = Tail(@)]
    /\ UNCHANGED <<ledger, accounts, controller, transfers, consumed, last>>

\* token.transfer traps: execute_transfer has no error path of its own, the
\* whole invocation ends and the host rolls it back.
TransferTraps ==
    /\ tx.active
    /\ tx.todo # <<>>
    /\ last' = Outcome("execute_sweep", tx.account, Trap, Ok, 0, <<>>,
                       Append(tx.done,
                              TransferCall(tx.acct, Head(tx.todo), tx.account,
                                           tx.destination,
                                           tx.payments[Head(tx.todo)], FALSE)),
                       tx.nested)
    /\ tx' = TxIdle
    /\ UNCHANGED <<ledger, accounts, controller, transfers, consumed>>

\* A token contract, while it holds control inside a transfer, calls
\* Account.sweep on the account being swept.
NestedSweep(destination, signature) ==
    /\ tx.active
    /\ tx.todo # <<>>
    /\ tx.nested = <<>>
    /\ LET r == sweep(tx.acct, destination, signature, ledger)
       IN tx' = [tx EXCEPT
                    !.acct = IF r.err = Ok THEN r.acct ELSE @,
                    !.nested = Append(@, [call |-> "sweep", err |-> r.err,
                                          acct_err |-> r.err])]
    /\ UNCHANGED <<ledger, accounts, controller, transfers, consumed, last>>

\* The transfers a nested execute_sweep makes when it gets as far as its loop.
NestedTransfers(acct, account, destination, payments) ==
    [i \in 1..Len(Keys(payments)) |->
        TransferCall(acct, Keys(payments)[i], account, destination,
                     payments[Keys(payments)[i]], TRUE)]

\* A token contract, while it holds control inside a transfer, calls
\* Controller.execute_sweep on the account being swept.
NestedExecuteSweep(destination, signature) ==
    /\ tx.active
    /\ tx.todo # <<>>
    /\ tx.nested = <<>>
    /\ LET e == execute_sweep_entry(tx.ctrl, tx.acct, tx.account, destination,
                                    signature, ledger)
           x == execute_sweep_exit(e.acct, tx.account, destination, None,
                                   e.payments)
       IN IF e.err # Ok \/ x.err # Ok
          THEN tx' = [tx EXCEPT
                        !.nested = Append(@, [call |-> "execute_sweep",
                                              err |-> IF e.err # Ok THEN e.err ELSE x.err,
                                              acct_err |-> IF e.err # Ok THEN e.acct_err ELSE x.acct_err])]
          ELSE /\ tx.ctrl.sweep_nonce < MaxNonce
               /\ tx' = [tx EXCEPT
                        !.ctrl = e.ctrl,
                        !.acct = x.acct,
                        !.done = @ \o NestedTransfers(e.acct, tx.account,
                                                      destination, e.payments),
                        !.accepted = Append(@, signature),
                        !.nested = Append(@, [call |-> "execute_sweep",
                                              err |-> Ok, acct_err |-> Ok])]
    /\ UNCHANGED <<ledger, accounts, controller, transfers, consumed, last>>

\* A committed transfer: the token, the parties and the amount.
Committed(done) ==
    [i \in 1..Len(done) |->
        [token |-> done[i].token, from |-> done[i].from, to |-> done[i].to,
         amount |-> done[i].amount]]

\* execute_sweep from the end of its transfer loop to its return: on Ok the
\* host commits the invocation, on an error it rolls it back.
ExecuteSweepReturn ==
    /\ tx.active
    /\ tx.todo = <<>>
    /\ LET x == execute_sweep_exit(tx.acct, tx.account, tx.destination,
                                   tx.reclaim_to, tx.payments)
       IN IF x.err # Ok
          THEN /\ last' = Outcome("execute_sweep", tx.account, x.err,
                                  x.acct_err, 0, <<>>, tx.done, tx.nested)
               /\ UNCHANGED <<accounts, controller, transfers, consumed>>
          ELSE /\ accounts' = [accounts EXCEPT ![tx.account] = x.acct]
               /\ controller' = tx.ctrl
               /\ transfers' = transfers \o Committed(tx.done)
               /\ consumed' = consumed \o tx.accepted
               /\ last' = Outcome("execute_sweep", tx.account, Ok, Ok,
                                  x.events[Len(x.events)].reserve_reclaimed,
                                  tx.events \o x.events, tx.done, tx.nested)
    /\ tx' = TxIdle
    /\ UNCHANGED ledger

\* The ledger closes: the height only grows.
AdvanceLedger ==
    /\ ~tx.active
    /\ ledger < MaxLedger
    /\ ledger' = ledger + 1
    /\ UNCHANGED <<accounts, controller, transfers, tx, consumed, last>>

\* The operations over given sets of inputs.
NextOver(accts, assets, amounts, expiries, counts, signers) ==
    \/ \E a \in accts, e \in expiries, n \in counts, authed \in BOOLEAN :
          Initialize(a, Creator, e, Recovery, n, authed)
    \/ \E a \in accts, amount \in amounts, asset \in assets :
          RecordPayment(a, amount, asset)
    \/ \E a \in accts, d \in Destinations : Sweep(a, d, AnySignature)
    \/ \E a \in accts, r \in Destinations : ReclaimReserve(a, r)
    \/ \E a \in accts : Expire(a)
    \/ \E k \in signers, d \in Destinations \cup {None} :
          ControllerInitialize(k, d)
    \/ \E d \in Destinations, authed \in BOOLEAN :
          UpdateAuthorizedDestination(d, authed)
    \/ \E a \in accts, d \in Destinations, s \in Signatures :
          ExecuteSweepEnter(a, d, s, {None, Recovery})
    \/ TransferReturns
    \/ TransferTraps
    \/ \E d \in Destinations : NestedSweep(d, AnySignature)
    \/ \E d \in Destinations, s \in Signatures : NestedExecuteSweep(d, s)
    \/ ExecuteSweepReturn
    \/ AdvanceLedger

Next ==
    NextOver({"acct1"}, Assets, {0} \cup Amounts, 1..MaxLedger, {1},
             {SignerKey})

Spec == Init /\ [][Next]_vars

\* Two accounts under the one controller, each with a single asset.
NextMulti ==
    NextOver(Accounts, {"XLM"}, {100}, {MaxLedger}, {1}, {SignerKey})

SpecMulti == Init /\ [][NextMulti]_vars

\* One account initialized for no, one or three expected assets.
ExpectedCounts == {0, 1, 3}

NextReserve ==
    NextOver({"acct1"}, Assets, {100}, {MaxLedger}, ExpectedCounts,
             {SignerKey})

SpecReserve == Init /\ [][NextReserve]_vars

\* The read-only queries of the controller: the value returned is kept in
\* the outcome, a boolean as 1 or 0, and nothing is written.
Query(op, a, value) ==
    /\ ~tx.active
    /\ last' = Outcome(op, a, Ok, None, value, <<>>, <<>>, <<>>)
    /\ UNCHANGED <<ledger, accounts, controller, transfers, tx, consumed>>

CanSweep(a) ==
    Query("can_sweep", a, IF can_sweep(accounts[a], ledger) THEN 1 ELSE 0)

GetReclaimableReserve(a) ==
    Query("get_reclaimable_reserve", a, get_reclaimable_reserve(accounts[a]))

\* One account, every operation and the queries.
NextQueries ==
    \/ NextOver({"acct1"}, Assets, {100}, {MaxLedger}, ExpectedCounts,
                {SignerKey})
    \/ CanSweep("acct1")
    \/ GetReclaimableReserve("acct1")

SpecQueries == Init /\ [][NextQueries]_vars

\* A token contract, while it holds control inside a transfer, calls
\* Account.reclaim_reserve on the account being swept.
NestedReclaimReserve(recipient) ==
    /\ tx.active
    /\ tx.todo # <<>>
    /\ tx.nested = <<>>
    /\ LET r == reclaim_reserve(tx.acct, recipient)
       IN tx' = [tx EXCEPT
                    !.acct = IF r.err = Ok THEN r.acct ELSE @,
                    !.nested = Append(@, [call |-> "reclaim_reserve",
                                          err |-> r.err, acct_err |-> r.err])]
    /\ UNCHANGED <<ledger, accounts, controller, transfers, consumed, last>>

\* One account, every operation, and a token that reclaims the reserve from
\* inside a transfer.
NextReentry ==
    \/ NextOver({"acct1"}, Assets, {100}, {MaxLedger}, {1}, {SignerKey})
    \/ NestedReclaimReserve(Recovery)

SpecReentry == Init /\ [][NextReentry]_vars

\* One account and one asset, with the scheduling the expiry path relies on:
\* an invocation in progress runs to its end, the ledger keeps closing, and
\* expire keeps being called.
NextLive ==
    NextOver({"acct1"}, {"XLM"}, {100}, 1..MaxLedger, {1}, {SignerKey})

SpecLive ==
    /\ Init
    /\ [][NextLive]_vars
    /\ WF_vars(TransferReturns \/ TransferTraps \/ ExecuteSweepReturn)
    /\ SF_vars(AdvanceLedger)
    /\ WF_vars(Expire("acct1"))

\* One account and eleven assets: the account's own operations.
NextAssets ==
    \/ \E authed \in BOOLEAN :
          Initialize("acct1", Creator, MaxLedger, Recovery, 1, authed)
    \/ \E asset \in ManyAssets : RecordPayment("acct1", 100, asset)
    \/ Sweep("acct1", "dest1", AnySignature)
    \/ ReclaimReserve("acct1", "dest1")
    \/ Expire("acct1")
    \/ AdvanceLedger

SpecAssets == Init /\ [][NextAssets]_vars

----------------------------------------------------------------------------
(* Properties *)

Terminal(status) == status = "Swept" \/ status = "Expired"

\* C1: Swept and Expired are terminal and mutually exclusive: once the
\* status of an account is Swept or Expired, no invocation of initialize,
\* record_payment, sweep, expire, reclaim_reserve or execute_sweep, at any
\* later ledger height, changes it.
C1_TerminalStatus ==
    [][\A a \in Accounts :
          Terminal(accounts[a].status) =>
              accounts'[a].status = accounts[a].status]_vars

\* C1, its case: an account that was swept, on which a later expire was
\* called and rejected.
C1_Witness ==
    /\ last.op = "expire"
    /\ last.err = "InvalidStatus"
    /\ accounts[last.account].status = "Swept"
    /\ ledger >= accounts[last.account].expiry_ledger

NoDuplicates(seq) ==
    \A i, j \in 1..Len(seq) : i # j => seq[i] # seq[j]

\* An authorization valid for nonce k: the authorized signer's signature over
\* a destination, nonce k and this controller.
ValidFor(signature, k) ==
    /\ controller.authorized_signer # None
    /\ \E d \in Destinations :
          signature = Sign(controller.authorized_signer,
                           sweep_message(d, k, ControllerId))

\* C2: replay protection: no authorization is accepted by two committed
\* execute_sweeps, whichever accounts they sweep, and once sweep_nonce is
\* past k an authorization valid for nonce k fails verification, so that
\* execute_sweep with it fails, for every account and destination.
C2_ReplayProtection ==
    /\ NoDuplicates(consumed)
    /\ \A s \in Signatures, k \in 0..MaxNonce :
          (ValidFor(s, k) /\ controller.sweep_nonce > k) =>
              \A a \in Accounts, d \in Destinations :
                  /\ verify_sweep_auth(controller, a, d, s) # Ok
                  /\ execute_sweep_entry(controller, accounts[a], a, d, s,
                                         ledger).err # Ok

\* C2, its case: two sweeps were committed, of two accounts, and the
\* authorization of the first was presented again and rejected.
C2_Witness ==
    /\ Len(consumed) = 2
    /\ accounts["acct1"].status = "Swept"
    /\ accounts["acct2"].status = "Swept"
    /\ controller.sweep_nonce = 2
    /\ ValidFor(consumed[1], 0)
    /\ ValidFor(consumed[2], 1)
    /\ last.op = "execute_sweep"
    /\ last.err = Trap

\* C3: sweep_nonce is 0 when the controller is initialized, grows by exactly
\* 1 with every committed execute_sweep and is changed by nothing else.
C3_NonceMonotonic ==
    [][/\ (controller.authorized_signer = None
            /\ controller'.authorized_signer # None)
           => controller'.sweep_nonce = 0
       /\ (tx.active /\ last'.op = "execute_sweep" /\ last'.err = Ok)
           => controller'.sweep_nonce = controller.sweep_nonce + 1
       /\ ~(tx.active /\ last'.op = "execute_sweep" /\ last'.err = Ok)
           => controller'.sweep_nonce >= controller.sweep_nonce
       /\ (controller.authorized_signer # None
            /\ ~(tx.active /\ last'.op = "execute_sweep" /\ last'.err = Ok))
           => controller'.sweep_nonce = controller.sweep_nonce]_vars

\* C3, its case: the nonce has grown and a repeated initialize of the
\* controller was rejected.
C3_Witness ==
    /\ controller.sweep_nonce = 2
    /\ last.op = "controller_initialize"
    /\ last.err = "AuthorizationFailed"

\* C4: an execute_sweep whose signature does not verify fails before it
\* touches anything: the nonce, the controller and the account are as they
\* were and no transfer is reached.
C4_FailedVerification ==
    \A a \in Accounts, d \in Destinations, s \in Signatures :
        (/\ check_destination(controller, d) = Ok
         /\ ~ed25519_verify(controller.authorized_signer,
                            sweep_message(d, controller.sweep_nonce,
                                          ControllerId), s))
        => LET e == execute_sweep_entry(controller, accounts[a], a, d, s,
                                        ledger)
           IN /\ e.err \in {Trap, "AuthorizedSignerNotSet"}
              /\ e.ctrl = controller
              /\ e.acct = accounts[a]
              /\ e.payments = EmptyPayments

\* C4, its case: an execute_sweep on an account ready to be swept was
\* rejected for its signature, and the account is still ready.
C4_Witness ==
    /\ last.op = "execute_sweep"
    /\ last.err = Trap
    /\ last.done = <<>>
    /\ controller.authorized_signer # None
    /\ controller.sweep_nonce = 0
    /\ accounts[last.account].status = "PaymentReceived"
    /\ ~is_expired(accounts[last.account], ledger)
    /\ transfers = <<>>

\* A transfer invocation made while the account was marked swept to the
\* party it pays.
MarkedBefore(call) == call.status_at = "Swept" /\ call.swept_to_at = call.to

\* C5: mark terminal, then move funds: at every invocation of the transfer
\* capability inside an execute_sweep the account's status is already Swept
\* and swept_to is already the destination; none is made for an account
\* that is Active or PaymentReceived.
C5_MarkThenMove ==
    /\ \A i \in 1..Len(tx.done) : MarkedBefore(tx.done[i])
    /\ \A i \in 1..Len(last.done) : MarkedBefore(last.done[i])
    /\ (tx.active /\ tx.todo # <<>>) =>
          (tx.acct.status = "Swept" /\ tx.acct.swept_to = tx.destination)

\* C5, its case: an execute_sweep between the first and the second transfer
\* of its loop, nothing of it committed yet.
C5_Witness ==
    /\ tx.active
    /\ Len(tx.done) = 1
    /\ Len(tx.todo) = 1
    /\ accounts[tx.account].status = "PaymentReceived"

\* A nested call that was rejected, by the account with AlreadySwept when it
\* got as far as the account.
Rejected(n) ==
    /\ n.err # Ok
    /\ n.call = "sweep" => n.err = "AlreadySwept"
    /\ (n.call = "execute_sweep" /\ n.acct_err # None) =>
          (n.err = "InvalidAccount" /\ n.acct_err = "AlreadySwept")

OncePerAsset(done) ==
    \A i, j \in 1..Len(done) : i # j => done[i].token # done[j].token

\* C6: a nested Account.sweep or Controller.execute_sweep on the account
\* being swept, issued from inside a transfer of the ongoing sweep, is
\* rejected, by the account with AlreadySwept, and no asset is transferred
\* twice within one sweep.
C6_Reentrancy ==
    /\ \A i \in 1..Len(tx.nested) : Rejected(tx.nested[i])
    /\ \A i \in 1..Len(last.nested) : Rejected(last.nested[i])
    /\ OncePerAsset(tx.done)
    /\ OncePerAsset(last.done)

\* C6, its case: a nested execute_sweep with the authorization of the next
\* nonce reached the account and was turned down, and the outer sweep
\* went on to commit.
C6_Witness ==
    /\ last.op = "execute_sweep"
    /\ last.err = Ok
    /\ Len(last.nested) = 1
    /\ last.nested[1].call = "execute_sweep"
    /\ last.nested[1].acct_err = "AlreadySwept"
    /\ Len(last.done) = 2

FailedTransfer(done) == \E i \in 1..Len(done) : ~done[i].returned

\* C7: the multi-asset sweep is atomic: when one of its transfers fails the
\* execute_sweep fails, and nothing of it is committed: no transfer, the
\* account as it was (not Swept, swept_to and reserve_reclaimed unchanged)
\* and the nonce as it was.
C7_Atomicity ==
    /\ [](last.op = "execute_sweep" /\ FailedTransfer(last.done)
            => last.err = Trap)
    /\ [](tx.active => ~FailedTransfer(tx.done))
    /\ [][(tx.active /\ ~tx'.active /\ FailedTransfer(last'.done)) =>
            /\ transfers' = transfers
            /\ accounts' = accounts
            /\ accounts'[tx.account].status # "Swept"
            /\ controller' = controller
            /\ consumed' = consumed]_vars

\* C7, its case: the first transfer of a sweep returned, the second failed,
\* and the account is as before the sweep.
C7_Witness ==
    /\ last.op = "execute_sweep"
    /\ last.err = Trap
    /\ Len(last.done) = 2
    /\ last.done[1].returned
    /\ ~last.done[2].returned
    /\ accounts[last.account].status = "PaymentReceived"
    /\ accounts[last.account].swept_to = None
    /\ controller.sweep_nonce = 0
    /\ transfers = <<>>

Range(seq) == {seq[i] : i \in 1..Len(seq)}

\* The (asset, amount) pairs of a payment ledger.
Pairs(payments) ==
    {[asset |-> k, amount |-> payments[k]] : k \in DOMAIN payments}

\* C8: a committed execute_sweep moves exactly the recorded ledger: one
\* transfer(account, destination, asset, amount) for every pair recorded
\* before the call and no other, and the records it emits list exactly
\* those pairs.
C8_ExactLedger ==
    [][(tx.active /\ last'.op = "execute_sweep" /\ last'.err = Ok) =>
        LET recorded == accounts[tx.account].payments
            calls == last'.done
            sweeps == {e \in Range(last'.events) : e.type \in {"swept", "sweep"}}
        IN /\ Len(calls) = Cardinality(DOMAIN recorded)
           /\ \A k \in DOMAIN recorded :
                 \E i \in 1..Len(calls) :
                     /\ calls[i].token = k
                     /\ calls[i].amount = recorded[k]
                     /\ calls[i].from = tx.account
                     /\ calls[i].to = tx.destination
                     /\ calls[i].returned
           /\ transfers' = transfers \o Committed(calls)
           /\ \E e \in sweeps : e.type = "swept"
           /\ \E e \in sweeps : e.type = "sweep"
           /\ \A e \in sweeps :
                 /\ Range(e.assets) = Pairs(recorded)
                 /\ Len(e.assets) = Cardinality(DOMAIN recorded)
                 /\ e.destination = tx.destination]_vars

\* C8, its case: a committed sweep of two assets with different amounts.
C8_Witness ==
    /\ last.op = "execute_sweep"
    /\ last.err = Ok
    /\ Len(last.done) = 2
    /\ last.done[1].amount # last.done[2].amount
    /\ Len(transfers) = 2

\* C9: sweep is idempotent-safe: on an account that was swept, every further
\* sweep fails with AlreadySwept, directly or through execute_sweep, and no
\* transfer loop is entered for it.
C9_SecondSweep ==
    /\ \A a \in Accounts, d \in Destinations :
          accounts[a].status = "Swept" =>
              /\ sweep(accounts[a], d, AnySignature, ledger).err = "AlreadySwept"
              /\ \A s \in Signatures :
                    LET e == execute_sweep_entry(controller, accounts[a], a,
                                                 d, s, ledger)
                    IN /\ e.err # Ok
                       /\ e.acct_err # None => e.acct_err = "AlreadySwept"
    /\ tx.active => accounts[tx.account].status # "Swept"

\* C9, its case: a second sweep of a swept account, after its expiry
\* ledger, was rejected with AlreadySwept.
C9_Witness ==
    /\ last.op = "sweep"
    /\ last.err = "AlreadySwept"
    /\ accounts[last.account].status = "Swept"
    /\ ledger >= accounts[last.account].expiry_ledger

Live(acct) ==
    acct.initialized /\ (acct.status = "Active" \/ acct.status = "PaymentReceived")

\* After the expiry ledger expire succeeds on a live account and is terminal.
ExpiresAfter ==
    \A a \in Accounts :
        (Live(accounts[a]) /\ ledger >= accounts[a].expiry_ledger) =>
            /\ expire(accounts[a], ledger).err = Ok
            /\ expire(accounts[a], ledger).acct.status = "Expired"

StaysExpired ==
    [][\A a \in Accounts :
          accounts[a].status = "Expired" => accounts'[a].status = "Expired"]_vars

C11_NoSweepAfterDeadline ==
    /\ [](\A a \in Accounts, d \in Destinations :
            (accounts[a].initialized /\ ledger >= accounts[a].expiry_ledger) =>
                LET r == sweep(accounts[a], d, AnySignature, ledger)
                IN /\ r.err # Ok
                   /\ \A s \in Signatures :
                         execute_sweep_entry(controller, accounts[a], a, d, s,
                                             ledger).err # Ok
                   /\ (accounts[a].status # "Swept" /\ has_payments(accounts[a])) =>
                         /\ r.err = "AccountExpired"
                         /\ r.acct.status = accounts[a].status
                         /\ r.acct.swept_to = accounts[a].swept_to)
    /\ [][\A a \in Accounts :
            (accounts[a].initialized /\ ledger >= accounts[a].expiry_ledger) =>
                (accounts'[a].status = "Swept" => accounts[a].status = "Swept")]_vars

\* C11, its case: an execute_sweep with the right signature, at the expiry
\* ledger, on an account holding a payment was turned down by the account.
C11_Witness ==
    /\ last.op = "execute_sweep"
    /\ last.err = "InvalidAccount"
    /\ last.acct_err = "AccountExpired"
    /\ accounts[last.account].status = "PaymentReceived"
    /\ accounts[last.account].swept_to = None
    /\ ledger = accounts[last.account].expiry_ledger
    /\ controller.sweep_nonce = 0

\* C12: a sweep of an initialized account on which no payment was recorded
\* fails: Account.sweep reports NoPaymentReceived, execute_sweep fails, and
\* the account is left as it was, an Active one Active with no swept_to.
C12_SweepWithoutPayment ==
    \A a \in Accounts, d \in Destinations :
        (accounts[a].initialized /\ DOMAIN accounts[a].payments = {}) =>
            LET r == sweep(accounts[a], d, AnySignature, ledger)
            IN /\ r.err = "NoPaymentReceived"
               /\ r.acct = accounts[a]
               /\ accounts[a].status = "Active" =>
                     (r.acct.status = "Active" /\ r.acct.swept_to = None)
               /\ \A s \in Signatures :
                     LET e == execute_sweep_entry(controller, accounts[a], a,
                                                  d, s, ledger)
                     IN /\ e.err # Ok
                        /\ e.acct = accounts[a]
                        /\ e.acct_err # None => e.acct_err = "NoPaymentReceived"

\* C12, its case: an execute_sweep with the right signature on a fresh
\* account was turned down by the account, which is Active as before.
C12_Witness ==
    /\ last.op = "execute_sweep"
    /\ last.err = "InvalidAccount"
    /\ last.acct_err = "NoPaymentReceived"
    /\ accounts[last.account].initialized
    /\ accounts[last.account].status = "Active"
    /\ accounts[last.account].swept_to = None
    /\ controller.sweep_nonce = 0

Pinned == has_authorized_destination(controller)

\* C13: locked mode: while the controller has an authorized_destination,
\* execute_sweep with any other destination fails with
\* UnauthorizedDestination and commits nothing (accounts, nonce and consumed
\* signatures as before); every transfer of a pinned controller went to the
\* pin and every account it swept has swept_to equal to the pin.
C13_LockedMode ==
    /\ [](Pinned =>
            \A a \in Accounts, d \in Destinations, s \in Signatures :
                d # get_authorized_destination(controller) =>
                    LET e == execute_sweep_entry(controller, accounts[a], a,
                                                 d, s, ledger)
                    IN /\ e.err = "UnauthorizedDestination"
                       /\ e.acct = accounts[a]
                       /\ e.ctrl = controller)
    /\ [](Pinned =>
            \A i \in 1..Len(transfers) :
                /\ transfers[i].to = get_authorized_destination(controller)
                /\ accounts[transfers[i].from].swept_to =
                       get_authorized_destination(controller))
    /\ [][(last'.op = "execute_sweep" /\ last'.err = "UnauthorizedDestination"
           /\ last' # last) =>
              /\ accounts' = accounts
              /\ controller' = controller
              /\ consumed' = consumed
              /\ transfers' = transfers]_vars
    /\ [][(Pinned /\ tx.active /\ last'.op = "execute_sweep" /\ last'.err = Ok) =>
              accounts'[tx.account].swept_to =
                  get_authorized_destination(controller)]_vars

\* C13, its case: a pinned controller has swept one account to the pin and
\* then turned down a sweep of the other to another destination.
C13_Witness ==
    /\ Pinned
    /\ last.op = "execute_sweep"
    /\ last.err = "UnauthorizedDestination"
    /\ accounts[last.account].status = "PaymentReceived"
    /\ controller.sweep_nonce = 1
    /\ Len(transfers) = 1
    /\ transfers[1].to = get_authorized_destination(controller)

\* C14: update_authorized_destination succeeds only while sweep_nonce = 0;
\* once an execute_sweep has succeeded, whichever account it targeted, every
\* call fails, a call of the creator with AccountAlreadySwept (a call the
\* creator did not authorize never passes require_auth), and
\* authorized_destination never changes again.
C14_UpdateDestination ==
    /\ [](\A d \in Destinations, authed \in BOOLEAN :
            update_authorized_destination(controller, d, authed).err = Ok =>
                controller.sweep_nonce = 0)
    /\ [](controller.sweep_nonce > 0 =>
            \A d \in Destinations :
                /\ update_authorized_destination(controller, d, TRUE).err =
                       "AccountAlreadySwept"
                /\ update_authorized_destination(controller, d, FALSE).err = Trap)
    /\ [][controller.sweep_nonce > 0 =>
            controller'.authorized_destination =
                controller.authorized_destination]_vars

\* C14, its case: after a sweep of the second account an update by the
\* creator was turned down.
C14_Witness ==
    /\ last.op = "update_authorized_destination"
    /\ last.err = "AccountAlreadySwept"
    /\ controller.sweep_nonce = 1
    /\ accounts["acct2"].status = "Swept"
    /\ accounts["acct1"].status = "PaymentReceived"

PaymentCount(a) == get_total_payments(accounts[a])

Recorded(a, asset) == get_payment(accounts[a], asset)

Reclaimable(acct) ==
    IF acct.base_reserve - 1000000 > 0 THEN acct.base_reserve - 1000000 ELSE 0

\* C17: reclaim_reserve returns max(base_reserve - MIN_BALANCE_FOR_CLOSE, 0)
\* exactly once per account: on a Swept account whose reserve was not
\* reclaimed it returns that value and sets the latch, which is never
\* cleared; on a Swept account whose reserve was reclaimed it fails with
\* AlreadySwept and returns no amount.
C17_ReclaimOnce ==
    /\ [](\A a \in Accounts, recipient \in Destinations \cup {Recovery} :
            accounts[a].status = "Swept" =>
                LET r == reclaim_reserve(accounts[a], recipient)
                IN IF ~accounts[a].reserve_reclaimed
                   THEN /\ r.err = Ok
                        /\ r.ret = Reclaimable(accounts[a])
                        /\ r.acct.reserve_reclaimed
                   ELSE /\ r.err = "AlreadySwept"
                        /\ r.ret = 0
                        /\ r.acct = accounts[a])
    /\ [](last.op = "reclaim_reserve" /\ last.err = Ok =>
            last.ret = Reclaimable(accounts[last.account]))
    /\ [](last.op = "execute_sweep" /\ last.err = Ok =>
            last.ret = Reclaimable(accounts[last.account]))
    /\ [][\A a \in Accounts :
            (accounts[a].status = "Swept" /\ accounts[a].reserve_reclaimed) =>
                (accounts'[a].status = "Swept" /\ accounts'[a].reserve_reclaimed)]_vars

\* C17, its case: the reserve of an account initialized for three assets
\* was reclaimed by the sweep, and a second reclamation was turned down.
C17_Witness ==
    /\ last.op = "reclaim_reserve"
    /\ last.err = "AlreadySwept"
    /\ last.ret = 0
    /\ accounts[last.account].status = "Swept"
    /\ accounts[last.account].base_reserve = 25000000
    /\ Len(transfers) > 0

\* C18: reserve_reclaimed is a latch: false after initialize, never back to
\* false once true, true only when the status is Swept or Expired;
\* reclaim_reserve on an Active or PaymentReceived account fails with
\* InvalidStatus.
C18_ReserveLatch ==
    /\ [](\A a \in Accounts :
            is_reserve_reclaimed(accounts[a]) => Terminal(accounts[a].status))
    /\ [](\A a \in Accounts, recipient \in Destinations \cup {Recovery} :
            Live(accounts[a]) =>
                /\ reclaim_reserve(accounts[a], recipient).err = "InvalidStatus"
                /\ reclaim_reserve(accounts[a], recipient).acct = accounts[a])
    /\ [][\A a \in Accounts :
            /\ is_reserve_reclaimed(accounts[a]) =>
                  is_reserve_reclaimed(accounts'[a])
            /\ (~accounts[a].initialized /\ accounts'[a].initialized) =>
                  ~is_reserve_reclaimed(accounts'[a])]_vars

\* C18, its case: a reclamation on an account holding a payment, not yet
\* swept, was turned down.
C18_Witness ==
    /\ last.op = "reclaim_reserve"
    /\ last.err = "InvalidStatus"
    /\ accounts[last.account].status = "PaymentReceived"
    /\ ~is_reserve_reclaimed(accounts[last.account])

\* C19: after initialize with expected_asset_count = n the base reserve is
\* 10,000,000 + n x 5,000,000, and it keeps that value through every later
\* operation, however many payments are recorded.
C19_BaseReserve ==
    /\ [](\A a \in Accounts, n \in ExpectedCounts :
            ~accounts[a].initialized =>
                LET r == account_initialize(accounts[a], Creator, MaxLedger,
                                            Recovery, n, TRUE, ledger)
                IN r.err = Ok =>
                      get_base_reserve(r.acct) = 10000000 + n * 5000000)
    /\ [](\A a \in Accounts :
            accounts[a].initialized =>
                \E n \in ExpectedCounts :
                    get_base_reserve(accounts[a]) = 10000000 + n * 5000000)
    /\ [][\A a \in Accounts :
            accounts[a].initialized =>
                get_base_reserve(accounts'[a]) = get_base_reserve(accounts[a])]_vars

\* C19, its case: an account initialized for three assets recorded two,
\* was swept and had its reserve reclaimed, the base reserve being
\* 25,000,000 still.
C19_Witness ==
    /\ accounts["acct1"].initialized
    /\ get_base_reserve(accounts["acct1"]) = 25000000
    /\ PaymentCount("acct1") = 2
    /\ accounts["acct1"].status = "Swept"
    /\ is_reserve_reclaimed(accounts["acct1"])
    /\ last.op = "execute_sweep"
    /\ last.err = Ok

\* C20: swept_to is write-once: it is set exactly when the status is Swept
\* or Expired, to the destination of the sweep when Swept and to
\* recovery_address when Expired, and is never overwritten.
C20_SweptToWriteOnce ==
    /\ [](\A a \in Accounts :
            /\ (accounts[a].swept_to # None) <=> Terminal(accounts[a].status)
            /\ accounts[a].status = "Expired" =>
                  accounts[a].swept_to = accounts[a].recovery_address)
    /\ [][\A a \in Accounts :
            /\ accounts[a].swept_to # None =>
                  accounts'[a].swept_to = accounts[a].swept_to
            /\ (accounts[a].status # "Swept" /\ accounts'[a].status = "Swept") =>
                  /\ last'.account = a
                  /\ \E i \in 1..Len(last'.events) :
                        /\ last'.events[i].type = "swept"
                        /\ last'.events[i].destination = accounts'[a].swept_to
                  /\ last'.op = "execute_sweep" =>
                        accounts'[a].swept_to = tx.destination]_vars

\* C20, its case: an account swept to the second destination, then an
\* expiry of it after its expiry ledger was turned down.
C20_Witness ==
    /\ last.op = "expire"
    /\ last.err = "InvalidStatus"
    /\ accounts[last.account].status = "Swept"
    /\ accounts[last.account].swept_to = "dest2"
    /\ ledger >= accounts[last.account].expiry_ledger

\* The account reports a payment, is in PaymentReceived and the ledger is
\* below its expiry ledger.
ReadyForSweep(a) ==
    /\ accounts[a].initialized
    /\ DOMAIN accounts[a].payments # {}
    /\ accounts[a].status = "PaymentReceived"
    /\ ledger < accounts[a].expiry_ledger

InitData(acct) ==
    <<acct.creator, acct.expiry_ledger, acct.recovery_address,
      acct.base_reserve>>

\* C22: account initialization happens at most once: on an initialized
\* account every initialize call, whatever its arguments and caller, fails
\* with AlreadyInitialized, and creator, expiry_ledger, recovery_address and
\* base_reserve keep the values of the first call in every later state.
C22_InitializeOnce ==
    /\ [](\A a \in Accounts :
            accounts[a].initialized =>
                \A creator \in {Creator, "dest1"}, e \in 0..(MaxLedger + 1),
                   recovery \in {Recovery, "dest2"}, n \in ExpectedCounts,
                   authed \in BOOLEAN :
                    LET r == account_initialize(accounts[a], creator, e,
                                                recovery, n, authed, ledger)
                    IN r.err = "AlreadyInitialized" /\ r.acct = accounts[a])
    /\ [][\A a \in Accounts :
            accounts[a].initialized =>
                /\ accounts'[a].initialized
                /\ InitData(accounts'[a]) = InitData(accounts[a])]_vars

\* C22, its case: a second initialize, after the account was swept and the
\* ledger moved on, was turned down.
C22_Witness ==
    /\ last.op = "initialize"
    /\ last.err = "AlreadyInitialized"
    /\ accounts[last.account].status = "Swept"
    /\ ledger > 0

\* C23: initialize with expiry_ledger less than or equal to the current
\* ledger height fails with InvalidExpiry and leaves the account
\* uninitialized; every account that becomes initialized has expiry_ledger
\* above the height of that step and is not expired right after it.
C23_InvalidExpiry ==
    /\ [](\A a \in Accounts, e \in 0..MaxLedger, n \in ExpectedCounts :
            (~accounts[a].initialized /\ e <= ledger) =>
                LET r == account_initialize(accounts[a], Creator, e, Recovery,
                                            n, TRUE, ledger)
                IN /\ r.err = "InvalidExpiry"
                   /\ r.acct = accounts[a]
                   /\ ~r.acct.initialized)
    /\ [][\A a \in Accounts :
            (~accounts[a].initialized /\ accounts'[a].initialized) =>
                /\ accounts'[a].expiry_ledger > ledger
                /\ ledger' = ledger
                /\ ~is_expired(accounts'[a], ledger')
                /\ expire(accounts'[a], ledger').err = "NotExpired"]_vars
    /\ [][(last' # last /\ last'.op = "initialize"
           /\ last'.err = "InvalidExpiry") =>
              /\ accounts' = accounts
              /\ ~accounts'[last'.account].initialized]_vars

\* C23, its case: after the ledger moved on, an initialize with an expiry
\* not above it was turned down and the account is uninitialized.
C23_Witness ==
    /\ last.op = "initialize"
    /\ last.err = "InvalidExpiry"
    /\ ~accounts[last.account].initialized
    /\ ledger > 0

Keys32 == {SignerKey, OtherKey}

\* C24: controller initialization is one-time: on a controller without a
\* signer, initialize stores the signer, sets sweep_nonce to 0, pins the
\* destination when one is given and records the creator; on a controller
\* with a signer every initialize fails with AuthorizationFailed and leaves
\* authorized_signer, sweep_nonce, authorized_destination and creator as
\* they were.
C24_ControllerInitializeOnce ==
    /\ [](\A k \in Keys32, d \in Destinations \cup {None} :
            LET r == controller_initialize(controller, k, d)
            IN IF controller.authorized_signer = None
               THEN /\ r.err = Ok
                    /\ r.ctrl.authorized_signer = k
                    /\ r.ctrl.sweep_nonce = 0
                    /\ r.ctrl.authorized_destination = d
                    /\ r.ctrl.creator # None
               ELSE /\ r.err = "AuthorizationFailed"
                    /\ r.ctrl = controller)
    /\ [][controller.authorized_signer # None =>
            /\ controller'.authorized_signer = controller.authorized_signer
            /\ controller'.creator = controller.creator]_vars
    /\ [][(last' # last /\ last'.op = "controller_initialize") =>
            IF controller.authorized_signer = None
            THEN last'.err = Ok /\ controller'.sweep_nonce = 0
            ELSE last'.err = "AuthorizationFailed" /\ controller' = controller]_vars

\* C24, its case: a second initialize of a flexible controller that has
\* swept an account was turned down, the nonce being 1 still.
C24_Witness ==
    /\ last.op = "controller_initialize"
    /\ last.err = "AuthorizationFailed"
    /\ controller.sweep_nonce = 1
    /\ controller.authorized_destination = None
    /\ Len(transfers) > 0

\* C25: no partial mutation on error: whenever initialize, record_payment,
\* sweep, reclaim_reserve or expire of the account, or initialize,
\* execute_sweep or update_authorized_destination of the controller, ends
\* with an error, every field of the account and of the controller has the
\* value it had before the call; the committed state changes only in a step
\* whose outcome is Ok.
C25_NoPartialMutation ==
    /\ [](~tx.active =>
          \A a \in Accounts :
            /\ \A e \in 0..(MaxLedger + 1), n \in ExpectedCounts, authed \in BOOLEAN :
                 LET r == account_initialize(accounts[a], Creator, e, Recovery,
                                             n, authed, ledger)
                 IN r.err # Ok => r.acct = accounts[a]
            /\ \A amount \in {-1, 0} \cup Amounts, asset \in Assets :
                 LET r == record_payment(accounts[a], amount, asset)
                 IN r.err # Ok => r.acct = accounts[a]
            /\ \A d \in Destinations :
                 /\ LET r == sweep(accounts[a], d, AnySignature, ledger)
                    IN r.err # Ok => r.acct = accounts[a]
                 /\ LET r == reclaim_reserve(accounts[a], d)
                    IN r.err # Ok => r.acct = accounts[a]
                 /\ \A authed \in BOOLEAN :
                      LET r == update_authorized_destination(controller, d, authed)
                      IN r.err # Ok => r.ctrl = controller
                 /\ \A sig \in Signatures :
                      LET r == execute_sweep_entry(controller, accounts[a], a,
                                                   d, sig, ledger)
                      IN r.err # Ok => r.ctrl = controller /\ r.acct = accounts[a]
            /\ LET r == expire(accounts[a], ledger)
               IN r.err # Ok => r.acct = accounts[a]
            /\ \A k \in Keys32, d \in Destinations \cup {None} :
                 LET r == controller_initialize(controller, k, d)
                 IN r.err # Ok => r.ctrl = controller)
    /\ [][(last' # last /\ last'.err \notin {Ok, Pending}) =>
            /\ accounts' = accounts
            /\ controller' = controller
            /\ transfers' = transfers
            /\ consumed' = consumed]_vars
    /\ [][(accounts' # accounts \/ controller' # controller) =>
            last'.err = Ok]_vars

\* C25, its case: an execute_sweep with a valid authorization got as far as
\* the account, which answered AccountExpired; the nonce is 0 still.
C25_Witness ==
    /\ last.op = "execute_sweep"
    /\ last.err # Ok
    /\ last.acct_err = "AccountExpired"
    /\ controller.authorized_signer # None
    /\ controller.sweep_nonce = 0
    /\ accounts[last.account].status = "PaymentReceived"

\* C26: trust boundary: the status of an account becomes Swept, and swept_to
\* is set to a destination the caller chose, only in the commit of a
\* Controller.execute_sweep that verified an authorization against
\* authorized_signer and consumed it; no other step puts an account in Swept.
C26_TrustBoundary ==
    [][\A a \in Accounts :
        (accounts'[a].status = "Swept" /\ accounts[a].status # "Swept") =>
            /\ last'.op = "execute_sweep"
            /\ last'.err = Ok
            /\ last'.account = a
            /\ controller'.authorized_signer # None
            /\ Len(consumed') > Len(consumed)
            /\ verify_sweep_auth(controller, a, accounts'[a].swept_to,
                                 consumed'[Len(consumed) + 1]) = Ok]_vars

\* C27: after every successful execute_sweep(account, destination,
\* authorization, reserve override) the status of the account is Swept,
\* swept_to is the destination, reserve_reclaimed is true, and a
\* get_reclaimable_reserve(account) that follows returns 0.
C27_AfterExecuteSweep ==
    /\ [][(tx.active /\ ~tx'.active /\ last'.err = Ok) =>
            /\ last'.op = "execute_sweep"
            /\ accounts'[tx.account].status = "Swept"
            /\ accounts'[tx.account].swept_to = tx.destination
            /\ accounts'[tx.account].reserve_reclaimed
            /\ get_reclaimable_reserve(accounts'[tx.account]) = 0]_vars
    /\ [][(last.op = "execute_sweep" /\ last.err = Ok
           /\ last'.op = "get_reclaimable_reserve"
           /\ last'.account = last.account) =>
            last'.ret = 0]_vars

\* C27, its case: the query right after an execute_sweep that paid the
\* reserve to the override recipient answered 0.
C27_Witness ==
    /\ last.op = "get_reclaimable_reserve"
    /\ last.ret = 0
    /\ accounts[last.account].status = "Swept"
    /\ accounts[last.account].reserve_reclaimed
    /\ accounts[last.account].base_reserve > MIN_BALANCE_FOR_CLOSE
    /\ Len(transfers) > 0
    /\ controller.sweep_nonce = 1

\* C28: a successful expire, including on an Active account that never
\* received a payment, sets the status to Expired, swept_to to the recovery
\* address and reserve_reclaimed to true in one step; on an Expired account
\* every reclaim_reserve fails, so that no reclaim_reserve hands the reserve
\* out after an expiry.
C28_ExpireLatchesReserve ==
    /\ [](\A a \in Accounts :
            LET r == expire(accounts[a], ledger)
            IN r.err = Ok =>
                /\ r.acct.status = "Expired"
                /\ r.acct.swept_to = accounts[a].recovery_address
                /\ r.acct.reserve_reclaimed)
    /\ [](\A a \in Accounts :
            accounts[a].status = "Expired" =>
                /\ accounts[a].swept_to = accounts[a].recovery_address
                /\ accounts[a].reserve_reclaimed
                /\ \A d \in Destinations \cup {Recovery} :
                      reclaim_reserve(accounts[a], d).err = "InvalidStatus")
    /\ [][\A a \in Accounts :
            (accounts'[a].status = "Expired" /\ accounts[a].status # "Expired") =>
                /\ last'.op = "expire"
                /\ last'.err = Ok
                /\ ~accounts[a].reserve_reclaimed
                /\ accounts'[a].reserve_reclaimed
                /\ accounts'[a].swept_to = accounts[a].recovery_address]_vars
    /\ [][(last' # last /\ last'.op = "reclaim_reserve" /\ last'.err = Ok) =>
            accounts[last'.account].status # "Expired"]_vars

\* C28, its case: an account that never received a payment was expired and
\* a reclaim_reserve on it was turned down.
C28_Witness ==
    /\ last.op = "reclaim_reserve"
    /\ last.err = "InvalidStatus"
    /\ accounts[last.account].status = "Expired"
    /\ DOMAIN accounts[last.account].payments = {}
    /\ accounts[last.account].reserve_reclaimed

\* C29: the payment ledger is frozen in the terminal states: on a Swept or
\* Expired account every record_payment fails, with InvalidStatus when the
\* amount is positive, and the recorded (asset, amount) pairs are the same
\* in every later state as when the account entered the terminal state.
C29_LedgerFrozen ==
    /\ [](\A a \in Accounts :
            Terminal(accounts[a].status) =>
                \A amount \in {-1, 0} \cup Amounts, asset \in Assets \cup ManyAssets :
                    LET r == record_payment(accounts[a], amount, asset)
                    IN /\ r.err # Ok
                       /\ amount > 0 => r.err = "InvalidStatus"
                       /\ r.acct = accounts[a])
    /\ [][\A a \in Accounts :
            (Terminal(accounts[a].status) \/ Terminal(accounts'[a].status)) =>
                accounts'[a].payments = accounts[a].payments]_vars
    /\ [][(tx.active /\ tx'.active) => tx'.acct.payments = tx.acct.payments]_vars
    /\ [][(tx.active /\ ~tx'.active /\ last'.err = Ok) =>
            accounts'[tx.account].payments = accounts[tx.account].payments]_vars

\* C29, its case: a record_payment on an Expired account that holds a
\* payment was turned down with InvalidStatus.
C29_Witness ==
    /\ last.op = "record_payment"
    /\ last.err = "InvalidStatus"
    /\ accounts[last.account].status = "Expired"
    /\ DOMAIN accounts[last.account].payments # {}

\* An account as storage would hold it with a given base reserve, not yet
\* reclaimed.
WithReserve(acct, amount) ==
    [acct EXCEPT !.initialized = TRUE, !.base_reserve = amount,
                 !.reserve_reclaimed = FALSE]

\* C30: get_reclaimable_reserve returns 0 for an uninitialized account,
\* base_reserve - 1,000,000 floored at 0 for an initialized account whose
\* reserve_reclaimed is false, and 0 once reserve_reclaimed is true; the
\* amount a successful reclaim_reserve returns is the amount
\* get_reclaimable_reserve reported right before it.
C30_ReclaimableReserve ==
    /\ [](\A a \in Accounts :
            LET q == get_reclaimable_reserve(accounts[a])
            IN /\ ~accounts[a].initialized => q = 0
               /\ accounts[a].reserve_reclaimed => q = 0
               /\ (accounts[a].initialized /\ ~accounts[a].reserve_reclaimed) =>
                     /\ q = accounts[a].base_reserve - MIN_BALANCE_FOR_CLOSE
                     /\ q \in {9000000, 14000000, 24000000}
               /\ \A b \in {0, 999999, 1000000, 1000001} :
                     get_reclaimable_reserve(WithReserve(accounts[a], b)) =
                        IF b = 1000001 THEN 1 ELSE 0)
    /\ [][(last' # last /\ last'.op = "reclaim_reserve" /\ last'.err = Ok) =>
            /\ last'.ret = get_reclaimable_reserve(accounts[last'.account])
            /\ (last.op = "get_reclaimable_reserve"
                /\ last.account = last'.account) => last'.ret = last.ret
            /\ get_reclaimable_reserve(accounts'[last'.account]) = 0]_vars
    /\ [][(tx.active /\ ~tx'.active /\ last'.err = Ok) =>
            last'.ret = get_reclaimable_reserve(tx.acct)]_vars
    /\ [][(last' # last /\ last'.op = "get_reclaimable_reserve") =>
            last'.ret = get_reclaimable_reserve(accounts[last'.account])]_vars

\* C30, its case: a reclaim_reserve on a swept account initialized for three
\* assets returned 24,000,000, and the query answers 0 from then on.
C30_Witness ==
    /\ last.op = "reclaim_reserve"
    /\ last.err = Ok
    /\ last.ret = 24000000
    /\ accounts[last.account].reserve_reclaimed
    /\ get_reclaimable_reserve(accounts[last.account]) = 0

\* C31: the status tracks the payment ledger: the first successful
\* record_payment moves the status from Active to PaymentReceived and later
\* payments leave it as it is; in every reachable state an Active account has
\* no payment, a PaymentReceived account has at least one, and a Swept
\* account has at least one.
C31_StatusTracksLedger ==
    /\ [](\A a \in Accounts :
            /\ accounts[a].status = "Active" => get_total_payments(accounts[a]) = 0
            /\ accounts[a].status = "PaymentReceived" =>
                  get_total_payments(accounts[a]) > 0 /\ has_payments(accounts[a])
            /\ accounts[a].status = "Swept" =>
                  get_total_payments(accounts[a]) > 0 /\ has_payments(accounts[a]))
    /\ [](tx.active =>
            tx.acct.status = "Swept" /\ get_total_payments(tx.acct) > 0)
    /\ [][(last' # last /\ last'.op = "record_payment" /\ last'.err = Ok) =>
            LET before == accounts[last'.account]
                after == accounts'[last'.account]
            IN IF get_total_payments(before) = 0
               THEN before.status = "Active" /\ after.status = "PaymentReceived"
               ELSE /\ before.status = "PaymentReceived"
                    /\ after.status = "PaymentReceived"
                    /\ get_total_payments(after) = get_total_payments(before) + 1]_vars

\* C31, its case: the second payment was recorded and the account is
\* PaymentReceived with two assets.
C31_Witness ==
    /\ last.op = "record_payment"
    /\ last.err = Ok
    /\ accounts[last.account].status = "PaymentReceived"
    /\ get_total_payments(accounts[last.account]) = 2

\* The reserve recipient of the execute_sweep in progress.
ReserveRecipient ==
    IF tx.reclaim_to # None THEN tx.reclaim_to ELSE tx.destination

AccountBound ==
    {Sign(SignerKey, sweep_message(d, n, a)) :
        d \in Destinations, n \in 0..MaxNonce, a \in Accounts}

\* C33: the authorization check of execute_sweep depends on the destination,
\* the current sweep_nonce and the controller's identity, and not on the
\* account: two calls that differ in the account alone get the same verdict,
\* and the authorization of the current nonce is accepted for every account.
C33_AuthorizationIgnoresAccount ==
    /\ [](\A d \in Destinations, sig \in Signatures \cup AccountBound :
            verify_sweep_auth(controller, "acct1", d, sig) =
                verify_sweep_auth(controller, "acct2", d, sig))
    /\ [](controller.authorized_signer # None =>
            \A d \in Destinations, a \in Accounts :
                verify_sweep_auth(controller, a, d,
                    Sign(controller.authorized_signer,
                         sweep_message(d, controller.sweep_nonce, ControllerId))) = Ok)
    /\ [](~tx.active =>
            \A d \in Destinations, sig \in Signatures :
                LET ea == execute_sweep_entry(controller, accounts["acct1"],
                                              "acct1", d, sig, ledger)
                    eb == execute_sweep_entry(controller, accounts["acct2"],
                                              "acct2", d, sig, ledger)
                IN /\ (ea.acct_err = None) <=> (eb.acct_err = None)
                   /\ ea.acct_err = None => ea.err = eb.err)

\* C33, its case: acct2 was swept with the authorization of nonce 0 while
\* acct1 was ready for a sweep under the same controller.
C33_Witness ==
    /\ last.op = "execute_sweep"
    /\ last.err = Ok
    /\ last.account = "acct2"
    /\ controller.sweep_nonce = 1
    /\ accounts["acct1"].status = "PaymentReceived"
    /\ accounts["acct2"].status = "Swept"

\* An initialized account that is neither Swept nor Expired, at or past its
\* expiry.
Overdue(a) ==
    /\ accounts[a].initialized
    /\ ~Terminal(accounts[a].status)
    /\ ledger >= accounts[a].expiry_ledger

\* C34: the expiry path is always available: on an initialized account that
\* is neither Swept nor Expired, once the ledger height is at or above
\* expiry_ledger, expire succeeds, and it goes on succeeding until it is
\* taken; so, the ledger advancing and expire being called, every
\* initialized account reaches Swept or Expired.
C34_ExpiryAvailable ==
    /\ [](\A a \in Accounts :
            Overdue(a) =>
                /\ expire(accounts[a], ledger).err = Ok
                /\ \A d \in Destinations :
                      sweep(accounts[a], d, AnySignature, ledger).err # Ok)
    /\ [][\A a \in Accounts :
            Overdue(a) =>
                \/ /\ accounts'[a].initialized
                   /\ ~Terminal(accounts'[a].status)
                   /\ ledger' >= accounts'[a].expiry_ledger
                \/ /\ accounts'[a].status = "Expired"
                   /\ last'.op = "expire"]_vars
    /\ [](accounts["acct1"].initialized =>
            <>Terminal(accounts["acct1"].status))

\* C34, its case: an account that never received a payment was expired.
C34_Witness ==
    /\ last.op = "expire"
    /\ last.err = Ok
    /\ accounts["acct1"].status = "Expired"
    /\ get_total_payments(accounts["acct1"]) = 0

\* C35: the time gates of sweep and expire are complementary: for an account
\* in status PaymentReceived, at every ledger height exactly one of
\* Account.sweep and Account.expire passes, sweep iff the height is below
\* expiry_ledger and expire iff it is at or above; at expiry_ledger itself
\* sweep is rejected and expire is accepted.
C35_ComplementaryGates ==
    /\ [](\A a \in Accounts :
            accounts[a].status = "PaymentReceived" =>
                \A h \in 0..(MaxLedger + 1), d \in Destinations :
                    LET s == sweep(accounts[a], d, AnySignature, h)
                        x == expire(accounts[a], h)
                    IN /\ (s.err = Ok) <=> (h < accounts[a].expiry_ledger)
                       /\ (x.err = Ok) <=> (h >= accounts[a].expiry_ledger)
                       /\ (s.err = Ok) # (x.err = Ok)
                       /\ s.err # Ok => s.err = "AccountExpired"
                       /\ x.err # Ok => x.err = "NotExpired"
                       /\ h = accounts[a].expiry_ledger =>
                             s.err = "AccountExpired" /\ x.err = Ok)
    /\ [][(last' # last /\ last'.op \in {"sweep", "expire"}
           /\ accounts[last'.account].status = "PaymentReceived") =>
            IF ledger < accounts[last'.account].expiry_ledger
            THEN last'.err = (IF last'.op = "sweep" THEN Ok ELSE "NotExpired")
            ELSE last'.err = (IF last'.op = "sweep" THEN "AccountExpired" ELSE Ok)]_vars

\* C35, its case: at the height of the expiry itself a sweep of a
\* PaymentReceived account was turned down with AccountExpired.
C35_Witness ==
    /\ last.op = "sweep"
    /\ last.err = "AccountExpired"
    /\ accounts[last.account].status = "PaymentReceived"
    /\ ledger = accounts[last.account].expiry_ledger

\* A signature and a destination that the controller accepts now.
Accepted(a, d, sig) ==
    /\ check_destination(controller, d) = Ok
    /\ verify_sweep_auth(controller, a, d, sig) = Ok

\* C36: can_sweep agrees with the preconditions of Account.sweep: in every
\* reachable state can_sweep(account) is true exactly when Account.sweep
\* would pass all its checks, so with a valid authorization, an allowed
\* destination and succeeding transfers, execute_sweep succeeds iff can_sweep
\* answered true right before.
C36_CanSweepAgrees ==
    /\ [](\A a \in Accounts, d \in Destinations :
            can_sweep(accounts[a], ledger) <=>
                (sweep(accounts[a], d, AnySignature, ledger).err = Ok))
    /\ [](~tx.active =>
          \A a \in Accounts, d \in Destinations, sig \in Signatures :
            Accepted(a, d, sig) =>
                LET e == execute_sweep_entry(controller, accounts[a], a, d,
                                             sig, ledger)
                IN /\ (e.err = Ok) <=> can_sweep(accounts[a], ledger)
                   /\ e.err = Ok =>
                         execute_sweep_exit(e.acct, a, d, None, e.payments).err = Ok)
    /\ [][(last' # last /\ last'.op = "can_sweep") =>
            \A d \in Destinations :
                (last'.ret = 1) <=>
                    (sweep(accounts[last'.account], d, AnySignature, ledger).err = Ok)]_vars
    /\ [][(~tx.active /\ last' # last /\ last'.op = "execute_sweep"
           /\ last'.acct_err # None) =>
            ((last'.err = Pending) <=> can_sweep(accounts[last'.account], ledger))]_vars
    /\ [][(tx.active /\ ~tx'.active /\ tx.nested = <<>> /\ last'.err # Trap) =>
            last'.err = Ok]_vars

\* C36, its case: before its expiry a swept account was asked and can_sweep
\* answered false, as Account.sweep would.
C36_Witness ==
    /\ last.op = "can_sweep"
    /\ last.ret = 0
    /\ accounts[last.account].status = "Swept"
    /\ ledger < accounts[last.account].expiry_ledger

\* C37: record_payment has no expiry check: on an initialized account that
\* is Active or PaymentReceived it succeeds also when the ledger height is
\* at or above expiry_ledger, as long as expire has not been called; a
\* payment recorded that way is never swept: the account can only expire.
C37_LatePayment ==
    /\ [](\A a \in Accounts :
            Overdue(a) =>
                /\ \A amount \in Amounts, asset \in Assets :
                      get_payment(accounts[a], asset) = {} =>
                          LET r == record_payment(accounts[a], amount, asset)
                          IN /\ r.err = Ok
                             /\ r.acct.status = "PaymentReceived"
                             /\ get_payment(r.acct, asset) = {amount}
                             /\ \A d \in Destinations, h \in ledger..(MaxLedger + 1) :
                                   sweep(r.acct, d, AnySignature, h).err = "AccountExpired"
                             /\ expire(r.acct, ledger).err = Ok
                /\ ~tx.active =>
                      \A d \in Destinations, sig \in Signatures :
                          execute_sweep_entry(controller, accounts[a], a, d,
                                              sig, ledger).err # Ok)
    /\ [][\A a \in Accounts :
            Overdue(a) =>
                /\ accounts'[a].status # "Swept"
                /\ ledger' >= ledger
                /\ accounts'[a].expiry_ledger = accounts[a].expiry_ledger]_vars
    /\ [][(last' # last /\ last'.op = "record_payment"
           /\ Overdue(last'.account)
           /\ last'.err # Ok) =>
            last'.err \in {"InvalidAmount", "DuplicateAsset", "TooManyPayments"}]_vars

\* C37, its case: the first payment of an account was recorded at or after
\* its expiry, and the account is PaymentReceived.
C37_Witness ==
    /\ last.op = "record_payment"
    /\ last.err = Ok
    /\ accounts[last.account].status = "PaymentReceived"
    /\ get_total_payments(accounts[last.account]) = 1
    /\ ledger >= accounts[last.account].expiry_ledger

\* C38: the destination pin can be installed or replaced and never removed:
\* once authorized_destination is set it stays set; a controller initialized
\* in flexible mode becomes locked by a successful
\* update_authorized_destination before the first sweep, and no operation
\* returns a locked controller to flexible mode.
C38_PinNeverRemoved ==
    /\ [][has_authorized_destination(controller) =>
            has_authorized_destination(controller')]_vars
    /\ [](tx.active =>
            (has_authorized_destination(controller) <=>
                has_authorized_destination(tx.ctrl)))
    /\ [](\A d \in Destinations :
            LET r == update_authorized_destination(controller, d, TRUE)
            IN /\ r.err = Ok =>
                    /\ get_authorized_destination(r.ctrl) = d
                    /\ get_sweep_nonce(controller) = 0
               /\ (controller.authorized_signer # None
                   /\ get_sweep_nonce(controller) = 0) => r.err = Ok)
    /\ [][controller'.authorized_destination # controller.authorized_destination =>
            /\ last'.op \in {"controller_initialize", "update_authorized_destination"}
            /\ last'.err = Ok
            /\ controller'.authorized_destination \in Destinations
            /\ controller.sweep_nonce = 0]_vars

\* C38, its case: a controller initialized in flexible mode was locked by
\* an update before its first sweep.
C38_Witness ==
    /\ last.op = "update_authorized_destination"
    /\ last.err = Ok
    /\ last.events[1].old_destination = None
    /\ has_authorized_destination(controller)
    /\ controller.sweep_nonce = 0

C40_LedgerFrame ==
    /\ [](\A a \in Accounts, d \in Destinations :
            /\ LET r == sweep(accounts[a], d, AnySignature, ledger)
               IN /\ get_payments(r.acct) = get_payments(accounts[a])
                  /\ InitData(r.acct) = InitData(accounts[a])
            /\ LET r == expire(accounts[a], ledger)
               IN /\ get_payments(r.acct) = get_payments(accounts[a])
                  /\ InitData(r.acct) = InitData(accounts[a])
            /\ LET r == reclaim_reserve(accounts[a], d)
               IN /\ get_payments(r.acct) = get_payments(accounts[a])
                  /\ InitData(r.acct) = InitData(accounts[a]))
    /\ [](~tx.active =>
          \A a \in Accounts, d \in Destinations, sig \in Signatures :
            LET e == execute_sweep_entry(controller, accounts[a], a, d, sig, ledger)
            IN e.err = Ok => e.payments = get_payments(accounts[a]))
    /\ [](tx.active =>
            /\ tx.payments = get_payments(accounts[tx.account])
            /\ get_payments(tx.acct) = tx.payments
            /\ InitData(tx.acct) = InitData(accounts[tx.account]))
    /\ [][(last' # last /\ last'.op \in {"sweep", "expire", "reclaim_reserve"}) =>
            /\ get_payments(accounts'[last'.account]) =
                  get_payments(accounts[last'.account])
            /\ InitData(accounts'[last'.account]) =
                  InitData(accounts[last'.account])]_vars

\* C40, its case: an account holding two assets was swept by a direct call
\* and holds the two records still.
C40_Witness ==
    /\ last.op = "sweep"
    /\ last.err = Ok
    /\ accounts[last.account].status = "Swept"
    /\ get_total_payments(accounts[last.account]) = 2

====
